---- MODULE Spec2Model ----
(***************************************************************************)
(* A model of the query-safety gate and of the self-correcting execution   *)
(* pipeline of sql-agent (main.py, utils.py, database.py, llm.py).         *)
(*                                                                         *)
(* Python strings are sequences of one-character strings, so that strip,   *)
(* upper, startswith, the `in` test and the regular expressions of the     *)
(* gate are computed on the text as the code computes them.  None is a     *)
(* value that is no text.                                                  *)
(***************************************************************************)
EXTENDS Integers, Sequences, FiniteSets, TLC

VARIABLES
    pc,             \* where process_question_with_retry / process_question stands
    question,       \* the question text of the current attempt
    attempt,        \* the loop variable of process_question_with_retry
    sql,            \* process_question: the candidate that passed GateCheck (None before)
    results,        \* process_question: the outcome of the last execute_query
    vacation_context, \* process_question: the sentence appended to the question
    answer,         \* the value process_question returned for this attempt (None before)
    final,          \* the value process_question_with_retry returned (None before)
    calls,          \* the collaborator calls of this attempt, in order
    driverLog,      \* the texts cursor.execute received in this attempt
    maxRetries,     \* the max_retries argument of process_question_with_retry
    gIn,            \* SpecGate: the SQL text handed to the two gate functions
    gPhase,         \* SpecGate: "input" before the call, "checked" after it
    gQuery,         \* SpecGate: the verdict of utils.is_safe_query
    gSql,           \* SpecGate: the verdict of database.is_safe_sql
    nIn,            \* SpecLimit: the SQL text handed to add_limit_if_needed
    nPhase,         \* SpecLimit: "input", "once" after one call, "twice" after two
    nOut,           \* SpecLimit: add_limit_if_needed(nIn)
    nAgain,         \* SpecLimit: add_limit_if_needed(nOut)
    shIn,           \* SpecShape: the rows handed to format_and_enhance_data
    shPhase,        \* SpecShape: "input", "shaped", "serialized"
    shOut,          \* SpecShape: the rows format_and_enhance_data returned
    shText,         \* SpecShape: the data text generate_response puts in the prompt
    vqIn,           \* SpecClassify: the question handed to is_vacation_question
    vqPhase,        \* SpecClassify: "input" before the call, "classified" after it
    vqOut,          \* SpecClassify: the verdict of is_vacation_question
    xIn,            \* SpecExec: the sql argument of execute_query
    xPc,            \* SpecExec: where execute_query stands
    xSql,           \* SpecExec: the local sql after add_limit_if_needed (None before)
    xConn,          \* SpecExec: conn: "none" (None), "open" or "closed"
    xLog,           \* SpecExec: the calls made to the driver, in order
    xRet,           \* SpecExec: what execute_query returned or raised
    history,        \* SpecChat: interactive: the conversation history
    chPc,           \* SpecChat: "prompt" while the loop of interactive runs, "ended" after it
    chLine,         \* SpecChat: the line input() returned in the last iteration (None: it raised)
    chAsked,        \* SpecChat: the calls of process_question_with_retry: <<question, debug_mode>>
    chTurns,        \* SpecChat: the iterations of the loop so far
    entry,          \* SpecDebug: how the two runs were started: "interactive" or "command"
    runPlain,       \* SpecDebug: the run with debug=False
    runDebug        \* SpecDebug: the run with debug=True

pipeVars == <<pc, question, attempt, sql, results, vacation_context, answer, final, calls, driverLog, maxRetries>>

gateVars == <<gIn, gPhase, gQuery, gSql>>

limitVars == <<nIn, nPhase, nOut, nAgain>>

shapeVars == <<shIn, shPhase, shOut, shText>>

classifyVars == <<vqIn, vqPhase, vqOut>>

\* the variables of the specifications of single functions and commands
execVars == <<xIn, xPc, xSql, xConn, xLog, xRet>>

chatVars == <<history, chPc, chLine, chAsked, chTurns>>

debugVars == <<entry, runPlain, runDebug>>

otherVars == <<classifyVars, execVars, chatVars, debugVars>>

vars == <<pipeVars, gateVars, limitVars, shapeVars, otherVars>>

----------------------------------------------------------------------------
(* Text primitives of Python's str and re, on sequences of characters.     *)

None == <<"<None>">>

Falsy(s) == s = None \/ s = <<>>

Whitespace == {" ", "\t", "\n"}

LowerLetters == <<"a", "b", "c", "d", "e", "f", "g", "h", "i", "j", "k", "l", "m", "n", "o", "p", "q", "r", "s", "t", "u", "v", "w", "x", "y", "z">>

UpperLetters == <<"A", "B", "C", "D", "E", "F", "G", "H", "I", "J", "K", "L", "M", "N", "O", "P", "Q", "R", "S", "T", "U", "V", "W", "X", "Y", "Z">>

Digits == {"0", "1", "2", "3", "4", "5", "6", "7", "8", "9"}

WordChars == {LowerLetters[i] : i \in 1..26} \cup {UpperLetters[i] : i \in 1..26} \cup Digits \cup {"_"}

ToUpper == [c \in {LowerLetters[i] : i \in 1..26} |-> UpperLetters[CHOOSE i \in 1..26 : LowerLetters[i] = c]]

UpperChar(c) == IF c \in DOMAIN ToUpper THEN ToUpper[c] ELSE c

Upper(s) == [i \in 1..Len(s) |-> UpperChar(s[i])]

\* the first index >= i of s that holds no whitespace (Len(s) + 1 when there is none)
RECURSIVE SkipWhitespace(_, _)
SkipWhitespace(s, i) == IF i > Len(s) \/ s[i] \notin Whitespace THEN i ELSE SkipWhitespace(s, i + 1)

\* the last index <= i of s that holds no whitespace (0 when there is none)
RECURSIVE SkipWhitespaceBack(_, _)
SkipWhitespaceBack(s, i) == IF i < 1 \/ s[i] \notin Whitespace THEN i ELSE SkipWhitespaceBack(s, i - 1)

\* str.strip
Strip(s) == SubSeq(s, SkipWhitespace(s, 1), SkipWhitespaceBack(s, Len(s)))

\* s[i..] begins with p
At(s, i, p) == i >= 1 /\ i + Len(p) - 1 <= Len(s) /\ SubSeq(s, i, i + Len(p) - 1) = p

StartsWith(s, p) == At(s, 1, p)

EndsWith(s, p) == At(s, Len(s) - Len(p) + 1, p)

\* Python: p in s
Contains(s, p) == p = <<>> \/ \E i \in 1..Len(s) : s[i] = p[1] /\ At(s, i, p)

IsWordAt(s, i) == i >= 1 /\ i <= Len(s) /\ s[i] \in WordChars

\* re: \b between s[i-1] and s[i]
WordBoundary(s, i) == IsWordAt(s, i - 1) # IsWordAt(s, i)

\* the first index >= i that holds no character of the set cs (Len(s)+1 when the run reaches the end)
RECURSIVE RunEnd(_, _, _)
RunEnd(s, i, cs) == IF i > Len(s) \/ s[i] \notin cs THEN i ELSE RunEnd(s, i + 1, cs)


\* SearchPair with no word boundary in front of the first keyword
SearchPair_unanchored(s, k1, k2) ==
    \E i \in 1..Len(s) :
        /\ s[i] = k1[1]
        /\ At(s, i, k1)
        /\ LET a == i + Len(k1)
               b == RunEnd(s, a, Whitespace)
           IN  /\ b > a
               /\ At(s, b, k2)
               /\ WordBoundary(s, b + Len(k2))

\* re.search(r'\b<k1>\s+<k2>\b', s)
SearchPair(s, k1, k2) ==
    \E i \in 1..Len(s) :
        /\ s[i] = k1[1]
        /\ WordBoundary(s, i)
        /\ At(s, i, k1)
        /\ LET a == i + Len(k1)
               b == RunEnd(s, a, Whitespace)
           IN  /\ b > a
               /\ At(s, b, k2)
               /\ WordBoundary(s, b + Len(k2))

\* re.search(r'\b<k1>\s+\w+\s+<k2>\b', s)
SearchTriple(s, k1, k2) ==
    \E i \in 1..Len(s) :
        /\ s[i] = k1[1]
        /\ WordBoundary(s, i)
        /\ At(s, i, k1)
        /\ LET a == i + Len(k1)
               b == RunEnd(s, a, Whitespace)
               c == RunEnd(s, b, WordChars)
               d == RunEnd(s, c, Whitespace)
           IN  /\ b > a
               /\ c > b
               /\ d > c
               /\ At(s, d, k2)
               /\ WordBoundary(s, d + Len(k2))

----------------------------------------------------------------------------
(* The keywords and markers of the two gate functions.                      *)

kwSELECT == <<"S", "E", "L", "E", "C", "T">>
kwWITH == <<"W", "I", "T", "H">>
kwDROP == <<"D", "R", "O", "P">>
kwTABLE == <<"T", "A", "B", "L", "E">>
kwDATABASE == <<"D", "A", "T", "A", "B", "A", "S", "E">>
kwSCHEMA == <<"S", "C", "H", "E", "M", "A">>
kwDELETE == <<"D", "E", "L", "E", "T", "E">>
kwFROM == <<"F", "R", "O", "M">>
kwINSERT == <<"I", "N", "S", "E", "R", "T">>
kwINTO == <<"I", "N", "T", "O">>
kwUPDATE == <<"U", "P", "D", "A", "T", "E">>
kwSET == <<"S", "E", "T">>
kwTRUNCATE == <<"T", "R", "U", "N", "C", "A", "T", "E">>
kwALTER == <<"A", "L", "T", "E", "R">>
kwCREATE == <<"C", "R", "E", "A", "T", "E">>

\* dangerous_patterns, the ten of the form \bA\s+B\b
DangerousPairs ==
    { <<kwDROP, kwTABLE>>, <<kwDROP, kwDATABASE>>, <<kwDROP, kwSCHEMA>>,
      <<kwDELETE, kwFROM>>, <<kwINSERT, kwINTO>>,
      <<kwTRUNCATE, kwTABLE>>, <<kwALTER, kwTABLE>>, <<kwCREATE, kwTABLE>>,
      <<kwCREATE, kwDATABASE>>, <<kwCREATE, kwSCHEMA>> }

\* any(re.search(pattern, sql_upper) for pattern in dangerous_patterns)
MatchesDangerous(sql_upper) ==
    \/ \E p \in DangerousPairs : SearchPair(sql_upper, p[1], p[2])
    \/ SearchTriple(sql_upper, kwUPDATE, kwSET)

injection_patterns ==
    { <<";", "-", "-">>, <<"/", "*">>, <<"*", "/">>,
      <<"O", "R", " ", "1", "=", "1">>,
      <<"O", "R", " ", "1", " ", "=", " ", "1">> }

\* any(pattern.upper() in sql_upper for pattern in injection_patterns)
HasInjection(sql_upper) == \E p \in injection_patterns : Contains(sql_upper, Upper(p))


\* is_safe_query with no allow-list check: only the dangerous patterns decide
is_safe_query_denylist(text) ==
    IF Falsy(text) THEN FALSE
    ELSE ~MatchesDangerous(Strip(Upper(text)))

\* utils.is_safe_query
is_safe_query(text) ==
    IF Falsy(text) THEN FALSE
    ELSE LET sql_upper == Strip(Upper(text))
         IN  IF ~StartsWith(sql_upper, kwSELECT) /\ ~StartsWith(sql_upper, kwWITH) THEN FALSE
             ELSE ~MatchesDangerous(sql_upper)

\* is_safe_sql that does not trim the text before it looks at its beginning
is_safe_sql_untrimmed(text) ==
    IF Falsy(text) THEN FALSE
    ELSE LET sql_upper == Upper(text)
         IN  IF ~StartsWith(sql_upper, kwSELECT) /\ ~StartsWith(sql_upper, kwWITH) THEN FALSE
             ELSE IF MatchesDangerous(sql_upper) THEN FALSE
             ELSE ~HasInjection(sql_upper)

\* database.is_safe_sql
is_safe_sql(text) ==
    IF Falsy(text) THEN FALSE
    ELSE LET sql_upper == Upper(Strip(text))
         IN  IF ~StartsWith(sql_upper, kwSELECT) /\ ~StartsWith(sql_upper, kwWITH) THEN FALSE
             ELSE IF MatchesDangerous(sql_upper) THEN FALSE
             ELSE ~HasInjection(sql_upper)

----------------------------------------------------------------------------
(* utils.clean_sql and database.add_limit_if_needed.                        *)

Fence == <<"backtick", "backtick", "backtick">>

FenceSql == <<"backtick", "backtick", "backtick", "s", "q", "l">>

\* re: ^ under re.MULTILINE, at index i of s
LineStart(s, i) == i = 1 \/ (i > 1 /\ i <= Len(s) + 1 /\ s[i - 1] = "\n")

\* re: $ under re.MULTILINE, at index i of s
LineEnd(s, i) == i = Len(s) + 1 \/ (i >= 1 /\ i <= Len(s) /\ s[i] = "\n")

\* re.sub(r'^<pat>\s*', '', s, flags=re.IGNORECASE | re.MULTILINE), from index i on
RECURSIVE SubLineStart(_, _, _)
SubLineStart(s, i, pat) ==
    IF i > Len(s) THEN <<>>
    ELSE IF LineStart(s, i) /\ At(Upper(s), i, Upper(pat))
         THEN SubLineStart(s, RunEnd(s, i + Len(pat), Whitespace), pat)
         ELSE <<s[i]>> \o SubLineStart(s, i + 1, pat)

\* re.sub(r'\s*```$', '', s, flags=re.MULTILINE), from index i on
RECURSIVE SubLineEnd(_, _)
SubLineEnd(s, i) ==
    IF i > Len(s) THEN <<>>
    ELSE LET j == RunEnd(s, i, Whitespace)
         IN  IF At(s, j, Fence) /\ LineEnd(s, j + Len(Fence))
             THEN SubLineEnd(s, j + Len(Fence))
             ELSE <<s[i]>> \o SubLineEnd(s, i + 1)

\* utils.clean_sql
clean_sql(text) ==
    IF Falsy(text) THEN None
    ELSE Strip(SubLineEnd(SubLineStart(SubLineStart(text, 1, FenceSql), 1, Fence), 1))

kwLIMIT == <<"L", "I", "M", "I", "T">>

LimitClause == <<" ", "L", "I", "M", "I", "T", " ", "1", "0", "0", "0">>

Semicolon == <<";">>

\* add_limit_if_needed with no test for an existing LIMIT
add_limit_if_needed_always(text) ==
    IF Falsy(text) THEN text
    ELSE LET sql_stripped == Strip(text)
             sql_upper == Upper(sql_stripped)
         IN  IF ~StartsWith(sql_upper, kwSELECT) THEN text
             ELSE IF EndsWith(sql_stripped, Semicolon)
                  THEN SubSeq(sql_stripped, 1, Len(sql_stripped) - 1) \o LimitClause \o Semicolon
                  ELSE sql_stripped \o LimitClause

\* database.add_limit_if_needed
add_limit_if_needed(text) ==
    IF Falsy(text) THEN text
    ELSE LET sql_stripped == Strip(text)
             sql_upper == Upper(sql_stripped)
         IN  IF ~StartsWith(sql_upper, kwSELECT) THEN text
             ELSE IF Contains(sql_upper, kwLIMIT) THEN text
             ELSE IF EndsWith(sql_stripped, Semicolon)
                  THEN SubSeq(sql_stripped, 1, Len(sql_stripped) - 1) \o LimitClause \o Semicolon
                  ELSE sql_stripped \o LimitClause

----------------------------------------------------------------------------
(* Query results and database.execute_query.                                *)

\* a value of a result row: an int, a str or a datetime.date
IntVal(n) == [t |-> "int", n |-> n, s |-> <<>>]

StrVal(s) == [t |-> "str", n |-> 0, s |-> s]

DateVal == [t |-> "date", n |-> 0, s |-> <<>>]

\* the three values execute_query returns besides a list of rows
ResNone == [kind |-> "none", rows |-> <<>>, error |-> <<>>]

ResError(e) == [kind |-> "error", rows |-> <<>>, error |-> e]

ResAck == [kind |-> "ack", rows |-> <<>>, error |-> <<>>]

ResRows(rows) == [kind |-> "rows", rows |-> rows, error |-> <<>>]

MsgBlocked == <<"U", "n", "s", "a", "f", "e", " ", "S", "Q", "L", " ", "q", "u", "e", "r", "y", " ", "b", "l", "o", "c", "k", "e", "d">>

\* a row is a sequence of <<column name, value>>, in column order
RowCount == << <<<<"c", "o", "u", "n", "t">>, IntVal(3)>> >>

RowDate == << <<<<"n", "a", "m", "e">>, StrVal(<<"A", "n", "n">>)>>, <<<<"s", "t", "a", "r", "t", "_", "d", "a", "t", "e">>, DateVal>> >>

RowKinds == {RowCount, RowDate}

MaxRows == 2

\* what cursor.fetchall() may return
FetchSets == { [i \in 1..n |-> r] : n \in 0..MaxRows, r \in RowKinds }

\* what the database does with one statement: connect_db fails, cursor.execute
\* raises, or the statement runs and fetchall() returns rows
DriverOutcomes ==
    { [conn |-> FALSE, raises |-> FALSE, rows |-> <<>>],
      [conn |-> TRUE, raises |-> TRUE, rows |-> <<>>] }
    \cup { [conn |-> TRUE, raises |-> FALSE, rows |-> rs] : rs \in FetchSets }


\* execute_query with no is_safe_sql check of its own
execute_query_ungated(text, d) ==
    IF Falsy(text) THEN [result |-> ResNone, handed |-> <<>>]
    ELSE LET limited == add_limit_if_needed(text)
             sql_upper == Upper(Strip(limited))
         IN  IF ~d.conn THEN [result |-> ResNone, handed |-> <<>>]
             ELSE IF d.raises THEN [result |-> ResNone, handed |-> <<limited>>]
             ELSE IF StartsWith(sql_upper, kwSELECT)
                     \/ (StartsWith(sql_upper, kwWITH) /\ Contains(sql_upper, kwSELECT))
                  THEN [result |-> ResRows(d.rows), handed |-> <<limited>>]
                  ELSE [result |-> ResAck, handed |-> <<limited>>]

\* database.execute_query: the value returned and the text handed to
\* cursor.execute (handed = <<>> when the driver is not reached)
execute_query(text, d) ==
    IF Falsy(text) THEN [result |-> ResNone, handed |-> <<>>]
    ELSE IF ~is_safe_sql(text) THEN [result |-> ResError(MsgBlocked), handed |-> <<>>]
    ELSE LET limited == add_limit_if_needed(text)
             sql_upper == Upper(Strip(limited))
         IN  IF ~d.conn THEN [result |-> ResNone, handed |-> <<>>]
             ELSE IF d.raises THEN [result |-> ResNone, handed |-> <<limited>>]
             ELSE IF StartsWith(sql_upper, kwSELECT)
                     \/ (StartsWith(sql_upper, kwWITH) /\ Contains(sql_upper, kwSELECT))
                  THEN [result |-> ResRows(d.rows), handed |-> <<limited>>]
                  ELSE [result |-> ResAck, handed |-> <<limited>>]

----------------------------------------------------------------------------
(* The question: main.is_vacation_question and the rewriting of the retry.  *)
(* A Cyrillic letter is written by the name of its code point.              *)

CyrillicLower == <<"u0430", "u0431", "u0432", "u0433", "u0434", "u0435", "u0436", "u0437", "u0438", "u0439", "u043a", "u043b", "u043c", "u043d", "u043e", "u043f", "u0440", "u0441", "u0442", "u0443", "u0444", "u0445", "u0446", "u0447", "u0448", "u0449", "u044a", "u044b", "u044c", "u044d", "u044e", "u044f", "u0451", "u0454", "u0456", "u0457", "u0491">>

CyrillicUpper == <<"u0410", "u0411", "u0412", "u0413", "u0414", "u0415", "u0416", "u0417", "u0418", "u0419", "u041a", "u041b", "u041c", "u041d", "u041e", "u041f", "u0420", "u0421", "u0422", "u0423", "u0424", "u0425", "u0426", "u0427", "u0428", "u0429", "u042a", "u042b", "u042c", "u042d", "u042e", "u042f", "u0401", "u0404", "u0406", "u0407", "u0490">>

ToLower ==
    [c \in {UpperLetters[i] : i \in 1..26} \cup {CyrillicUpper[i] : i \in 1..Len(CyrillicUpper)} |->
        IF \E i \in 1..26 : UpperLetters[i] = c
        THEN LowerLetters[CHOOSE i \in 1..26 : UpperLetters[i] = c]
        ELSE CyrillicLower[CHOOSE i \in 1..Len(CyrillicUpper) : CyrillicUpper[i] = c]]

\* str.lower
Lower(s) == [i \in 1..Len(s) |-> IF s[i] \in DOMAIN ToLower THEN ToLower[s[i]] ELSE s[i]]

vacation_keywords ==
    { <<"v", "a", "c", "a", "t", "i", "o", "n">>, <<"h", "o", "l", "i", "d", "a", "y">>, <<"t", "i", "m", "e", " ", "o", "f", "f">>, <<"l", "e", "a", "v", "e">>, <<"s", "i", "c", "k">>,
      <<"u043e", "u0442", "u043f", "u0443", "u0441", "u043a">>, <<"u043a", "u0430", "u043d", "u0438", "u043a", "u0443", "u043b", "u044b">>, <<"u0431", "u043e", "u043b", "u044c", "u043d", "u0438", "u0447", "u043d", "u044b", "u0439">>,
      <<"u0432", "u0456", "u0434", "u043f", "u0443", "u0441", "u0442">>, <<"u043a", "u0430", "u043d", "u0456", "u043a", "u0443", "u043b">>, <<"u043b", "u0456", "u043a", "u0430", "u0440", "u043d">> }

\* is_vacation_question that looks for the keywords in the question as typed
is_vacation_question_cased(q) ==
    \E keyword \in vacation_keywords : Contains(q, keyword)

\* main.is_vacation_question
is_vacation_question(q) ==
    LET question_lower == Lower(q)
    IN  \E keyword \in vacation_keywords : Contains(question_lower, keyword)

\* str.replace(old, new) from index i on: leftmost, non-overlapping occurrences
RECURSIVE ReplaceFrom(_, _, _, _)
ReplaceFrom(s, i, old, new) ==
    IF i > Len(s) THEN <<>>
    ELSE IF At(s, i, old) THEN new \o ReplaceFrom(s, i + Len(old), old, new)
    ELSE <<s[i]>> \o ReplaceFrom(s, i + 1, old, new)

Replace(s, old, new) == ReplaceFrom(s, 1, old, new)

\* modified_question without the replacement of 'last week'
modified_question_partial(q) ==
    CHOOSE r \in { Replace(r1, <<"r", "e", "c", "e", "n", "t">>, <<"i", "n", " ", "2", "0", "2", "5">>) :
                     r1 \in { Replace(q, <<"u043f", "u043e", "u0441", "u043b", "u0435", "u0434", "u043d">>, <<"u0437", "u0430", " ", "2", "0", "2", "5", " ", "u0433", "u043e", "u0434">>) } } : TRUE

\* process_question_with_retry: the modified question of the first retry
modified_question(q) ==
    CHOOSE r \in { Replace(r2, <<"l", "a", "s", "t", " ", "w", "e", "e", "k">>, <<"i", "n", " ", "N", "o", "v", "e", "m", "b", "e", "r", " ", "2", "0", "2", "5">>) :
                     r2 \in { Replace(r1, <<"r", "e", "c", "e", "n", "t">>, <<"i", "n", " ", "2", "0", "2", "5">>) :
                               r1 \in { Replace(q, <<"u043f", "u043e", "u0441", "u043b", "u0435", "u0434", "u043d">>, <<"u0437", "u0430", " ", "2", "0", "2", "5", " ", "u0433", "u043e", "u0434">>) } } } : TRUE

DigitSeq == <<"0", "1", "2", "3", "4", "5", "6", "7", "8", "9">>

\* str(n) for n >= 0
RECURSIVE Str(_)
Str(n) == IF n < 10 THEN <<DigitSeq[n + 1]>> ELSE Str(n \div 10) \o <<DigitSeq[(n % 10) + 1]>>

----------------------------------------------------------------------------
(* llm.format_and_enhance_data and llm.generate_response.                   *)

DurationThreshold == 3600000

MagnitudeThreshold == 1000000

\* the divisor 3600000000.0 of format_and_enhance_data, per tenth of an hour
\* (3600000000 / 10; the values of the model are below 2^31)
MicrosPerTenthHour == 360000000

\* f"{value / 3600000000.0:.1f} hours", for a value that is no exact tie
FormatHours(n) ==
    LET tenths == (n \div MicrosPerTenthHour) + (IF 2 * (n % MicrosPerTenthHour) > MicrosPerTenthHour THEN 1 ELSE 0)
    IN  Str(tenths \div 10) \o <<".">> \o Str(tenths % 10) \o <<" ", "h", "o", "u", "r", "s">>

\* f"{value:,}"
RECURSIVE FormatThousands(_)
FormatThousands(n) ==
    IF n < 1000 THEN Str(n)
    ELSE LET r == n % 1000
             pad == IF r < 10 THEN <<"0", "0">> ELSE IF r < 100 THEN <<"0">> ELSE <<>>
         IN  FormatThousands(n \div 1000) \o <<",">> \o pad \o Str(r)

DurationWords == { <<"t", "i", "m", "e">>, <<"s", "p", "e", "n", "t">>, <<"h", "o", "u", "r", "s">> }

\* EnhanceValue that formats every number, whatever its size
EnhanceValue_everyint(key, value) ==
    IF value.t = "int" THEN StrVal(FormatThousands(value.n)) ELSE value

\* format_and_enhance_data: one value of one row
EnhanceValue(key, value) ==
    IF value.t = "int" /\ value.n > DurationThreshold
       /\ \E w \in DurationWords : Contains(Lower(key), w)
    THEN StrVal(FormatHours(value.n))
    ELSE IF value.t = "int" /\ value.n > MagnitudeThreshold
    THEN StrVal(FormatThousands(value.n))
    ELSE value

\* llm.format_and_enhance_data, for a non-empty list of rows
format_and_enhance_data(rows) ==
    [i \in 1..Len(rows) |-> [j \in 1..Len(rows[i]) |-> <<rows[i][j][1], EnhanceValue(rows[i][j][1], rows[i][j][2])>>]]

\* json.dumps raises TypeError on a value it cannot serialize
JsonSerializable(rows) ==
    \A i \in 1..Len(rows) : \A j \in 1..Len(rows[i]) : rows[i][j][2].t # "date"

PromptRows == 10

\* SerializedRows with no truncation
SerializedRows_all(data) == data

\* the rows json.dumps serializes for the prompt
SerializedRows(data) == IF Len(data) > PromptRows THEN SubSeq(data, 1, PromptRows) ELSE data

MsgNoResults == <<"N", "o", " ", "r", "e", "s", "u", "l", "t", "s", " ", "f", "o", "u", "n", "d", " ", "f", "o", "r", " ", "y", "o", "u", "r", " ", "q", "u", "e", "s", "t", "i", "o", "n", ".">>

MsgErrorPayload == <<"T", "h", "e", "r", "e", " ", "w", "a", "s", " ", "a", "n", " ", "e", "r", "r", "o", "r", " ", "p", "r", "o", "c", "e", "s", "s", "i", "n", "g", " ", "y", "o", "u", "r", " ", "q", "u", "e", "s", "t", "i", "o", "n", ":", " ">>

MsgLlmError == <<"I", " ", "e", "n", "c", "o", "u", "n", "t", "e", "r", "e", "d", " ", "a", "n", " ", "e", "r", "r", "o", "r", " ", "w", "h", "i", "l", "e", " ", "g", "e", "n", "e", "r", "a", "t", "i", "n", "g", " ", "a", " ", "r", "e", "s", "p", "o", "n", "s", "e", " ", "t", "o", " ", "y", "o", "u", "r", " ", "q", "u", "e", "s", "t", "i", "o", "n", ".">>

MsgLlmNoChoice == <<"I", " ", "w", "a", "s", " ", "u", "n", "a", "b", "l", "e", " ", "t", "o", " ", "g", "e", "n", "e", "r", "a", "t", "e", " ", "a", " ", "r", "e", "s", "p", "o", "n", "s", "e", " ", "t", "o", " ", "y", "o", "u", "r", " ", "q", "u", "e", "s", "t", "i", "o", "n", ".">>

MsgLlmException == <<"I", " ", "e", "n", "c", "o", "u", "n", "t", "e", "r", "e", "d", " ", "a", "n", " ", "e", "r", "r", "o", "r", " ", "w", "h", "i", "l", "e", " ", "p", "r", "o", "c", "e", "s", "s", "i", "n", "g", " ", "y", "o", "u", "r", " ", "q", "u", "e", "s", "t", "i", "o", "n", ".">>

ExcNoItems == <<"'", "s", "t", "r", "'", " ", "o", "b", "j", "e", "c", "t", " ", "h", "a", "s", " ", "n", "o", " ", "a", "t", "t", "r", "i", "b", "u", "t", "e", " ", "'", "i", "t", "e", "m", "s", "'">>

ExcNotSerializable == <<"O", "b", "j", "e", "c", "t", " ", "o", "f", " ", "t", "y", "p", "e", " ", "d", "a", "t", "e", " ", "i", "s", " ", "n", "o", "t", " ", "J", "S", "O", "N", " ", "s", "e", "r", "i", "a", "l", "i", "z", "a", "b", "l", "e">>

PrefixAnswer == <<"A", "n", "s", "w", "e", "r", ":">>

PrefixResponse == <<"R", "e", "s", "p", "o", "n", "s", "e", ":">>

\* result[len(prefix):].strip() if result.startswith(prefix)
StripPrefix(s, prefix) == IF StartsWith(s, prefix) THEN Strip(SubSeq(s, Len(prefix) + 1, Len(s))) ELSE s

\* what call_openrouter gives generate_response: an error mapping, a mapping
\* with choices and their content, a mapping with no choices, or choices of
\* an unexpected shape (the KeyError is caught in generate_response)
LlmTexts ==
    { <<"A", "n", "s", "w", "e", "r", ":", " ", "3", " ", "e", "m", "p", "l", "o", "y", "e", "e", "s", ".">>,
      <<"N", "o", " ", "r", "e", "s", "u", "l", "t", "s", " ", "f", "o", "u", "n", "d", " ", "i", "n", " ", "t", "h", "e", " ", "d", "a", "t", "a", ".">>,
      <<" ">> }

LlmOutcomes ==
    { [kind |-> "error", content |-> <<>>],
      [kind |-> "nochoices", content |-> <<>>],
      [kind |-> "malformed", content |-> <<>>] }
    \cup { [kind |-> "choices", content |-> c] : c \in LlmTexts }

\* generate_response that asks the language model also when there are no rows
generate_response_askempty(q, data, llm) ==
    IF data.kind = "none"
    THEN [raised |-> FALSE, asked |-> FALSE, text |-> MsgNoResults]
    ELSE IF data.kind = "error"
    THEN [raised |-> FALSE, asked |-> FALSE, text |-> MsgErrorPayload \o data.error]
    ELSE IF data.kind = "ack"
    THEN [raised |-> TRUE, asked |-> FALSE, text |-> ExcNoItems]
    ELSE LET enhanced == format_and_enhance_data(data.rows)
         IN  IF ~JsonSerializable(SerializedRows(enhanced))
             THEN [raised |-> TRUE, asked |-> FALSE, text |-> ExcNotSerializable]
             ELSE IF llm.kind = "error" THEN [raised |-> FALSE, asked |-> TRUE, text |-> MsgLlmError]
             ELSE IF llm.kind = "choices"
                  THEN [raised |-> FALSE, asked |-> TRUE,
                        text |-> StripPrefix(StripPrefix(Strip(llm.content), PrefixAnswer), PrefixResponse)]
             ELSE IF llm.kind = "malformed" THEN [raised |-> FALSE, asked |-> TRUE, text |-> MsgLlmException]
             ELSE [raised |-> FALSE, asked |-> TRUE, text |-> MsgLlmNoChoice]

\* llm.generate_response: raised is TRUE when the call raises, and text is
\* then the message of the exception; asked is TRUE when call_openrouter was
\* called
generate_response(q, data, llm) ==
    IF data.kind = "none" \/ (data.kind = "rows" /\ data.rows = <<>>)
    THEN [raised |-> FALSE, asked |-> FALSE, text |-> MsgNoResults]
    ELSE IF data.kind = "error"
    THEN [raised |-> FALSE, asked |-> FALSE, text |-> MsgErrorPayload \o data.error]
    ELSE IF data.kind = "ack"
    THEN [raised |-> TRUE, asked |-> FALSE, text |-> ExcNoItems]
    ELSE LET enhanced == format_and_enhance_data(data.rows)
         IN  IF ~JsonSerializable(SerializedRows(enhanced))
             THEN [raised |-> TRUE, asked |-> FALSE, text |-> ExcNotSerializable]
             ELSE IF llm.kind = "error" THEN [raised |-> FALSE, asked |-> TRUE, text |-> MsgLlmError]
             ELSE IF llm.kind = "choices"
                  THEN [raised |-> FALSE, asked |-> TRUE,
                        text |-> StripPrefix(StripPrefix(Strip(llm.content), PrefixAnswer), PrefixResponse)]
             ELSE IF llm.kind = "malformed" THEN [raised |-> FALSE, asked |-> TRUE, text |-> MsgLlmException]
             ELSE [raised |-> FALSE, asked |-> TRUE, text |-> MsgLlmNoChoice]

----------------------------------------------------------------------------
(* main.process_question and main.process_question_with_retry.  The         *)
(* collaborators that reach outside the process (the schema query, the      *)
(* language model, the database driver, the vacation files) answer with any *)
(* value of their interface; everything computed in the process is computed *)
(* by the operators above.                                                  *)

max_retries == 2

ErrSchema == <<"E", "r", "r", "o", "r", ":", " ", "U", "n", "a", "b", "l", "e", " ", "t", "o", " ", "r", "e", "t", "r", "i", "e", "v", "e", " ", "d", "a", "t", "a", "b", "a", "s", "e", " ", "s", "c", "h", "e", "m", "a", ".">>

ErrGenerate == <<"E", "r", "r", "o", "r", ":", " ", "U", "n", "a", "b", "l", "e", " ", "t", "o", " ", "g", "e", "n", "e", "r", "a", "t", "e", " ", "S", "Q", "L", " ", "q", "u", "e", "r", "y", " ", "f", "o", "r", " ", "y", "o", "u", "r", " ", "q", "u", "e", "s", "t", "i", "o", "n", ".">>

ErrEmpty == <<"E", "r", "r", "o", "r", ":", " ", "G", "e", "n", "e", "r", "a", "t", "e", "d", " ", "S", "Q", "L", " ", "i", "s", " ", "e", "m", "p", "t", "y", " ", "o", "r", " ", "i", "n", "v", "a", "l", "i", "d", ".">>

ErrUnsafe == <<"E", "r", "r", "o", "r", ":", " ", "G", "e", "n", "e", "r", "a", "t", "e", "d", " ", "S", "Q", "L", " ", "q", "u", "e", "r", "y", " ", "c", "o", "n", "t", "a", "i", "n", "s", " ", "u", "n", "s", "a", "f", "e", " ", "o", "p", "e", "r", "a", "t", "i", "o", "n", "s", ".">>

ErrExecute == <<"E", "r", "r", "o", "r", ":", " ", "U", "n", "a", "b", "l", "e", " ", "t", "o", " ", "e", "x", "e", "c", "u", "t", "e", " ", "S", "Q", "L", " ", "q", "u", "e", "r", "y", " ", "a", "f", "t", "e", "r", " ", "a", "t", "t", "e", "m", "p", "t", "i", "n", "g", " ", "t", "o", " ", "f", "i", "x", " ", "i", "t", ".">>

PrefixDatabaseError == <<"D", "a", "t", "a", "b", "a", "s", "e", " ", "e", "r", "r", "o", "r", ":", " ">>

PrefixProcessing == <<"E", "r", "r", "o", "r", " ", "p", "r", "o", "c", "e", "s", "s", "i", "n", "g", " ", "q", "u", "e", "s", "t", "i", "o", "n", ":", " ">>

MsgExecuted == <<"Q", "u", "e", "r", "y", " ", "e", "x", "e", "c", "u", "t", "e", "d", " ", "s", "u", "c", "c", "e", "s", "s", "f", "u", "l", "l", "y", ".">>

MarkerNoResults == <<"N", "o", " ", "r", "e", "s", "u", "l", "t", "s", " ", "f", "o", "u", "n", "d">>

MsgUnable == <<"U", "n", "a", "b", "l", "e", " ", "t", "o", " ", "f", "i", "n", "d", " ", "r", "e", "s", "u", "l", "t", "s", " ", "a", "f", "t", "e", "r", " ", "m", "u", "l", "t", "i", "p", "l", "e", " ", "a", "t", "t", "e", "m", "p", "t", "s", ".">>

ErrorMessageFixed == <<"Q", "u", "e", "r", "y", " ", "e", "x", "e", "c", "u", "t", "i", "o", "n", " ", "f", "a", "i", "l", "e", "d">>

\* f"Found {len(results)} results for your query."
MsgFound(n) == <<"F", "o", "u", "n", "d", " ">> \o Str(n) \o <<" ", "r", "e", "s", "u", "l", "t", "s", " ", "f", "o", "r", " ", "y", "o", "u", "r", " ", "q", "u", "e", "r", "y", ".">>

\* the sentence of Step 5
VacationSentence(users, requests) ==
    <<"\n", "\n", "V", "a", "c", "a", "t", "i", "o", "n", " ", "d", "a", "t", "a", " ", "i", "s", " ", "a", "l", "s", "o", " ", "a", "v", "a", "i", "l", "a", "b", "l", "e", " ", "w", "i", "t", "h", " ">> \o Str(users) \o <<" ", "u", "s", "e", "r", "s", " ", "a", "n", "d", " ">>
        \o Str(requests) \o <<" ", "v", "a", "c", "a", "t", "i", "o", "n", " ", "r", "e", "q", "u", "e", "s", "t", "s", ".">>

Tables == <<"<schema>">>

\* get_schema returns None or a non-empty mapping of tables
SchemaOutputs == {None, Tables}

\* the texts the language model may give as SQL (generate_sql, fix_sql_error)
SqlPlain == <<"S", "E", "L", "E", "C", "T", " ", "a", " ", "F", "R", "O", "M", " ", "t">>

SqlTerminated == <<"s", "e", "l", "e", "c", "t", " ", "a", " ", "f", "r", "o", "m", " ", "t", ";">>

SqlFenced == <<"backtick", "backtick", "backtick", "s", "q", "l", "\n", "S", "E", "L", "E", "C", "T", " ", "a", " ", "F", "R", "O", "M", " ", "t", "\n", "backtick", "backtick", "backtick">>

SqlWith == <<"W", "I", "T", "H", " ", "c", " ", "A", "S", " ", "(", "S", "E", "L", "E", "C", "T", " ", "1", ")", " ", "S", "E", "L", "E", "C", "T", " ", "*", " ", "F", "R", "O", "M", " ", "c">>

SqlWithTable == <<"W", "I", "T", "H", " ", "c", " ", "A", "S", " ", "(", "V", "A", "L", "U", "E", "S", " ", "(", "1", ")", ")", " ", "T", "A", "B", "L", "E", " ", "c">>

SqlUpdates == <<"S", "E", "L", "E", "C", "T", " ", "u", "p", "d", "a", "t", "e", "s", " ", "F", "R", "O", "M", " ", "t">>

SqlTautology == <<"S", "E", "L", "E", "C", "T", " ", "a", " ", "F", "R", "O", "M", " ", "t", " ", "W", "H", "E", "R", "E", " ", "x", " ", "=", " ", "1", " ", "O", "R", " ", "1", "=", "1">>

SqlCommented == <<"S", "E", "L", "E", "C", "T", " ", "a", " ", "/", "*", " ", "a", "l", "l", " ", "*", "/", " ", "F", "R", "O", "M", " ", "t">>

SqlStacked == <<"S", "E", "L", "E", "C", "T", " ", "1", ";", " ", "d", "r", "o", "p", " ", "t", "a", "b", "l", "e", " ", "t">>

SqlDrop == <<"D", "R", "O", "P", " ", "T", "A", "B", "L", "E", " ", "t">>

SqlLimitColumn == <<"S", "E", "L", "E", "C", "T", " ", "r", "a", "t", "e", "_", "l", "i", "m", "i", "t", " ", "F", "R", "O", "M", " ", "t">>

SqlBlank == <<" ", "\n">>

SqlFenceOnly == <<"backtick", "backtick", "backtick">>

SqlOutputs ==
    { None, <<>>, SqlPlain, SqlTerminated, SqlFenced, SqlWith, SqlWithTable,
      SqlUpdates, SqlTautology, SqlCommented, SqlStacked, SqlDrop, SqlLimitColumn,
      SqlBlank, SqlFenceOnly }

\* load_vacation_data returns None, raises, or returns the counts
VacationOutcomes ==
    { [kind |-> "none", n_users |-> 0, n_requests |-> 0],
      [kind |-> "raise", n_users |-> 0, n_requests |-> 0],
      [kind |-> "data", n_users |-> 2, n_requests |-> 5] }

Questions ==
    { <<"H", "o", "w", " ", "m", "a", "n", "y", " ", "e", "m", "p", "l", "o", "y", "e", "e", "s", "?">>,
      <<"r", "e", "c", "e", "n", "t", " ", "l", "e", "a", "v", "e", " ", "l", "a", "s", "t", " ", "w", "e", "e", "k", ",", " ", "r", "e", "c", "e", "n", "t", " ", "h", "i", "r", "e", "s">>,
      <<"u043f", "u043e", "u0441", "u043b", "u0435", "u0434", "u043d", "u0438", "u0435", " ", "u0437", "u0430", "u0434", "u0430", "u0447", "u0438">> }

\* one collaborator call: the function, its text argument, the kind of value
\* it returned, and the value itself when it is a text or a list of rows
Call(fn, arg, res, out) == [fn |-> fn, arg |-> arg, res |-> res, out |-> out]

InitPipe ==
    /\ pc = "schema"
    /\ question \in Questions
    /\ attempt = 0
    /\ sql = None
    /\ results = ResNone
    /\ vacation_context = <<>>
    /\ answer = None
    /\ final = None
    /\ calls = <<>>
    /\ driverLog = <<>>
    /\ maxRetries \in 0..max_retries

\* process_question returns ans
Return(ans) ==
    /\ answer' = ans
    /\ pc' = "returned"

\* main.py 147-149
FetchSchema(out) ==
    /\ pc = "schema"
    /\ calls' = Append(calls, Call("get_schema", <<>>, IF out = None THEN "none" ELSE "tables", <<>>))
    /\ IF Falsy(out)
       THEN Return(ErrSchema)
       ELSE pc' = "generate" /\ UNCHANGED answer
    /\ UNCHANGED <<maxRetries, question, attempt, sql, results, vacation_context, final, driverLog>>


\* GenerateSQL that sends a candidate rejected at GateCheck to the corrector
GenerateSQL_escalate(out) ==
    /\ pc = "generate"
    /\ \E cleaned \in {clean_sql(out)}, gen \in {Call("generate_sql", question, IF out = None THEN "none" ELSE "text", out)} :
           IF Falsy(out)
           THEN /\ Return(ErrGenerate)
                /\ calls' = Append(calls, gen)
                /\ UNCHANGED sql
           ELSE IF Falsy(cleaned)
           THEN /\ Return(ErrEmpty)
                /\ calls' = Append(calls, gen)
                /\ UNCHANGED sql
           ELSE IF ~is_safe_query(cleaned)
           THEN /\ pc' = "fix"
                /\ sql' = cleaned
                /\ calls' = calls \o <<gen, Call("is_safe_query", cleaned, "blocked", <<>>)>>
                /\ UNCHANGED answer
           ELSE /\ pc' = "execute"
                /\ sql' = cleaned
                /\ calls' = calls \o <<gen, Call("is_safe_query", cleaned, "safe", <<>>)>>
                /\ UNCHANGED answer
    /\ UNCHANGED <<maxRetries, question, attempt, results, vacation_context, final, driverLog>>

\* main.py 162-182: generate_sql, clean_sql and the GateCheck
GenerateSQL(out) ==
    /\ pc = "generate"
    /\ \E cleaned \in {clean_sql(out)}, gen \in {Call("generate_sql", question, IF out = None THEN "none" ELSE "text", out)} :
           IF Falsy(out)
           THEN /\ Return(ErrGenerate)
                /\ calls' = Append(calls, gen)
                /\ UNCHANGED sql
           ELSE IF Falsy(cleaned)
           THEN /\ Return(ErrEmpty)
                /\ calls' = Append(calls, gen)
                /\ UNCHANGED sql
           ELSE IF ~is_safe_query(cleaned)
           THEN /\ Return(ErrUnsafe)
                /\ calls' = calls \o <<gen, Call("is_safe_query", cleaned, "blocked", <<>>)>>
                /\ UNCHANGED sql
           ELSE /\ pc' = "execute"
                /\ sql' = cleaned
                /\ calls' = calls \o <<gen, Call("is_safe_query", cleaned, "safe", <<>>)>>
                /\ UNCHANGED answer
    /\ UNCHANGED <<maxRetries, question, attempt, results, vacation_context, final, driverLog>>


\* AfterResults that summarises an error payload like any other result
AfterResults_summarised(res) ==
    /\ pc' = IF is_vacation_question(question) THEN "vacation" ELSE "respond"
    /\ UNCHANGED answer

\* main.py 205-216: what follows a result that is not None
AfterResults(res) ==
    IF res.kind = "error"
    THEN Return(PrefixDatabaseError \o res.error)
    ELSE /\ pc' = IF is_vacation_question(question) THEN "vacation" ELSE "respond"
         /\ UNCHANGED answer

\* Execute that asks generate_sql for a new candidate when the execution fails
Execute_regenerate(d) ==
    /\ pc = "execute"
    /\ \E r \in {execute_query(sql, d)} :
           /\ results' = r.result
           /\ driverLog' = driverLog \o r.handed
           /\ calls' = Append(calls, Call("execute_query", sql, r.result.kind, r.result.rows))
           /\ IF r.result.kind = "none"
              THEN pc' = "generate" /\ UNCHANGED answer
              ELSE AfterResults(r.result)
    /\ UNCHANGED <<maxRetries, question, attempt, sql, vacation_context, final>>

\* main.py 185-192: execute_query on the initial candidate
Execute(d) ==
    /\ pc = "execute"
    /\ \E r \in {execute_query(sql, d)} :
           /\ results' = r.result
           /\ driverLog' = driverLog \o r.handed
           /\ calls' = Append(calls, Call("execute_query", sql, r.result.kind, r.result.rows))
           /\ IF r.result.kind = "none"
              THEN pc' = "fix" /\ UNCHANGED answer
              ELSE AfterResults(r.result)
    /\ UNCHANGED <<maxRetries, question, attempt, sql, vacation_context, final>>

\* main.py 195-198 and 205-206: fix_sql_error, clean_sql and the second GateCheck
FixSQL(out) ==
    /\ pc = "fix"
    /\ \E cleaned \in {clean_sql(out)}, fix \in {Call("fix_sql_error", sql, IF out = None THEN "none" ELSE "text", out)} :
           IF Falsy(out) \/ Falsy(cleaned)
           THEN /\ Return(ErrExecute)
                /\ calls' = Append(calls, fix)
                /\ UNCHANGED sql
           ELSE IF ~is_safe_query(cleaned)
           THEN /\ Return(ErrExecute)
                /\ calls' = calls \o <<fix, Call("is_safe_query", cleaned, "blocked", <<>>)>>
                /\ UNCHANGED sql
           ELSE /\ pc' = "execute2"
                /\ sql' = cleaned
                /\ calls' = calls \o <<fix, Call("is_safe_query", cleaned, "safe", <<>>)>>
                /\ UNCHANGED answer
    /\ UNCHANGED <<maxRetries, question, attempt, results, vacation_context, final, driverLog>>


\* ExecuteFixed that starts another correction when the corrected candidate fails
ExecuteFixed_again(d) ==
    /\ pc = "execute2"
    /\ \E r \in {execute_query(sql, d)} :
           /\ results' = r.result
           /\ driverLog' = driverLog \o r.handed
           /\ calls' = Append(calls, Call("execute_query", sql, r.result.kind, r.result.rows))
           /\ IF r.result.kind = "none"
              THEN pc' = "fix" /\ UNCHANGED answer
              ELSE AfterResults(r.result)
    /\ UNCHANGED <<maxRetries, question, attempt, sql, vacation_context, final>>

\* main.py 201-209: execute_query on the corrected candidate
ExecuteFixed(d) ==
    /\ pc = "execute2"
    /\ \E r \in {execute_query(sql, d)} :
           /\ results' = r.result
           /\ driverLog' = driverLog \o r.handed
           /\ calls' = Append(calls, Call("execute_query", sql, r.result.kind, r.result.rows))
           /\ IF r.result.kind = "none"
              THEN Return(ErrExecute)
              ELSE AfterResults(r.result)
    /\ UNCHANGED <<maxRetries, question, attempt, sql, vacation_context, final>>

\* VacationContext with no try around load_vacation_data: a raise ends the attempt
VacationContext_unguarded(v) ==
    /\ pc = "vacation"
    /\ vacation_context' = IF v.kind = "data" THEN VacationSentence(v.n_users, v.n_requests) ELSE <<>>
    /\ calls' = Append(calls, Call("load_vacation_data", <<>>, v.kind, <<>>))
    /\ IF v.kind = "raise"
       THEN Return(PrefixProcessing)
       ELSE pc' = "respond" /\ UNCHANGED answer
    /\ UNCHANGED <<maxRetries, question, attempt, sql, results, final, driverLog>>

\* main.py 216-230: the vacation context
VacationContext(v) ==
    /\ pc = "vacation"
    /\ vacation_context' = IF v.kind = "data" THEN VacationSentence(v.n_users, v.n_requests) ELSE <<>>
    /\ calls' = Append(calls, Call("load_vacation_data", <<>>, v.kind, <<>>))
    /\ pc' = "respond"
    /\ UNCHANGED <<maxRetries, question, attempt, sql, results, answer, final, driverLog>>

\* GenerateResponse with no fallback for an empty response
GenerateResponse_nofallback(llm) ==
    /\ pc = "respond"
    /\ \E enhanced_question \in {question \o vacation_context} :
       \E r \in {generate_response(enhanced_question, results, llm)} :
       \E response \in {r.text} :
           /\ calls' = calls \o (IF r.asked THEN <<Call("call_openrouter", enhanced_question, llm.kind, llm.content)>> ELSE <<>>)
                              \o <<Call("generate_response", enhanced_question,
                                        IF r.raised THEN "raised" ELSE "text", results.rows)>>
           /\ IF r.raised
              THEN Return(PrefixProcessing \o r.text)
              ELSE Return(response)
    /\ UNCHANGED <<maxRetries, question, attempt, sql, results, vacation_context, final, driverLog>>

\* main.py 238-259: generate_response, the fallback and the except clause
GenerateResponse(llm) ==
    /\ pc = "respond"
    /\ \E enhanced_question \in {question \o vacation_context} :
       \E r \in {generate_response(enhanced_question, results, llm)} :
       \E response \in {IF ~Falsy(r.text) THEN r.text
                        ELSE IF results.kind = "rows" THEN MsgFound(Len(results.rows))
                        ELSE MsgExecuted} :
           /\ calls' = calls \o (IF r.asked THEN <<Call("call_openrouter", enhanced_question, llm.kind, llm.content)>> ELSE <<>>)
                              \o <<Call("generate_response", enhanced_question,
                                        IF r.raised THEN "raised" ELSE "text", results.rows)>>
           /\ IF r.raised
              THEN Return(PrefixProcessing \o r.text)
              ELSE Return(response)
    /\ UNCHANGED <<maxRetries, question, attempt, sql, results, vacation_context, final, driverLog>>


\* RetryDecision that retries on any answer while attempts remain
RetryDecision_eager ==
    /\ pc = "returned"
    /\ IF attempt = maxRetries
       THEN /\ final' = answer
            /\ pc' = "done"
            /\ UNCHANGED <<maxRetries, question, attempt, sql, results, vacation_context, answer, calls, driverLog>>
       ELSE /\ question' = IF attempt = 0 THEN modified_question(question) ELSE question
            /\ attempt' = attempt + 1
            /\ pc' = "schema"
            /\ sql' = None
            /\ results' = ResNone
            /\ vacation_context' = <<>>
            /\ answer' = None
            /\ calls' = <<>>
            /\ driverLog' = <<>>
            /\ UNCHANGED <<final, maxRetries>>

\* str(e) of an exception raised inside the try block of process_question
ExceptionTexts == { <<"c", "o", "n", "n", "e", "c", "t", "i", "o", "n", " ", "a", "l", "r", "e", "a", "d", "y", " ", "c", "l", "o", "s", "e", "d">>, <<>> }

\* the collaborator process_question is calling at each position
Collaborator ==
    [ schema |-> "get_schema", generate |-> "generate_sql", execute |-> "execute_query",
      fix |-> "fix_sql_error", execute2 |-> "execute_query" ]

\* main.py 255-259: the collaborator called at this position raises and the
\* except clause of process_question returns.  execute_query raises only
\* past its is_safe_sql check, from conn.rollback() or conn.close(), with
\* cursor.execute reached (reached = TRUE) or not
ExceptClause(e, reached) ==
    /\ pc \in DOMAIN Collaborator
    /\ IF Collaborator[pc] = "execute_query"
       THEN /\ is_safe_sql(sql)
            /\ driverLog' = IF reached THEN Append(driverLog, add_limit_if_needed(sql)) ELSE driverLog
       ELSE /\ ~reached
            /\ UNCHANGED driverLog
    /\ calls' = Append(calls, Call(Collaborator[pc], IF sql = None THEN question ELSE sql, "raised", <<>>))
    /\ Return(PrefixProcessing \o e)
    /\ UNCHANGED <<maxRetries, question, attempt, sql, results, vacation_context, final>>

\* RetryDecision that allows one attempt more than max_retries + 1
RetryDecision_offbyone ==
    /\ pc = "returned"
    /\ IF ~Falsy(answer) /\ ~StartsWith(answer, MarkerNoResults)
       THEN /\ final' = answer
            /\ pc' = "done"
            /\ UNCHANGED <<maxRetries, question, attempt, sql, results, vacation_context, answer, calls, driverLog>>
       ELSE IF attempt = maxRetries + 1
       THEN /\ final' = answer
            /\ pc' = "done"
            /\ UNCHANGED <<maxRetries, question, attempt, sql, results, vacation_context, answer, calls, driverLog>>
       ELSE /\ question' = IF attempt = 0 THEN modified_question(question) ELSE question
            /\ attempt' = attempt + 1
            /\ pc' = "schema"
            /\ sql' = None
            /\ results' = ResNone
            /\ vacation_context' = <<>>
            /\ answer' = None
            /\ calls' = <<>>
            /\ driverLog' = <<>>
            /\ UNCHANGED <<final, maxRetries>>


\* RetryDecision that also retries an answer that reports a database error
RetryDecision_onerrors ==
    /\ pc = "returned"
    /\ IF ~Falsy(answer) /\ ~StartsWith(answer, MarkerNoResults) /\ ~StartsWith(answer, PrefixDatabaseError)
       THEN /\ final' = answer
            /\ pc' = "done"
            /\ UNCHANGED <<maxRetries, question, attempt, sql, results, vacation_context, answer, calls, driverLog>>
       ELSE IF attempt = maxRetries
       THEN /\ final' = answer
            /\ pc' = "done"
            /\ UNCHANGED <<maxRetries, question, attempt, sql, results, vacation_context, answer, calls, driverLog>>
       ELSE /\ question' = IF attempt = 0 THEN modified_question(question) ELSE question
            /\ attempt' = attempt + 1
            /\ pc' = "schema"
            /\ sql' = None
            /\ results' = ResNone
            /\ vacation_context' = <<>>
            /\ answer' = None
            /\ calls' = <<>>
            /\ driverLog' = <<>>
            /\ UNCHANGED <<final, maxRetries>>


\* RetryDecision that returns the synthesized message when the attempts are exhausted
RetryDecision_synthesized ==
    /\ pc = "returned"
    /\ IF ~Falsy(answer) /\ ~StartsWith(answer, MarkerNoResults)
       THEN /\ final' = answer
            /\ pc' = "done"
            /\ UNCHANGED <<maxRetries, question, attempt, sql, results, vacation_context, answer, calls, driverLog>>
       ELSE IF attempt = maxRetries
       THEN /\ final' = MsgUnable
            /\ pc' = "done"
            /\ UNCHANGED <<maxRetries, question, attempt, sql, results, vacation_context, answer, calls, driverLog>>
       ELSE /\ question' = IF attempt = 0 THEN modified_question(question) ELSE question
            /\ attempt' = attempt + 1
            /\ pc' = "schema"
            /\ sql' = None
            /\ results' = ResNone
            /\ vacation_context' = <<>>
            /\ answer' = None
            /\ calls' = <<>>
            /\ driverLog' = <<>>
            /\ UNCHANGED <<final, maxRetries>>

\* RetryDecision that rewrites the question after the second attempt instead of the first
RetryDecision_rewritelate ==
    /\ pc = "returned"
    /\ IF ~Falsy(answer) /\ ~StartsWith(answer, MarkerNoResults)
       THEN /\ final' = answer
            /\ pc' = "done"
            /\ UNCHANGED <<maxRetries, question, attempt, sql, results, vacation_context, answer, calls, driverLog>>
       ELSE IF attempt = maxRetries
       THEN /\ final' = answer
            /\ pc' = "done"
            /\ UNCHANGED <<maxRetries, question, attempt, sql, results, vacation_context, answer, calls, driverLog>>
       ELSE /\ question' = IF attempt = 1 THEN modified_question(question) ELSE question
            /\ attempt' = attempt + 1
            /\ pc' = "schema"
            /\ sql' = None
            /\ results' = ResNone
            /\ vacation_context' = <<>>
            /\ answer' = None
            /\ calls' = <<>>
            /\ driverLog' = <<>>
            /\ UNCHANGED <<final, maxRetries>>

\* main.py 111-127: what process_question_with_retry does with the answer
RetryDecision ==
    /\ pc = "returned"
    /\ IF ~Falsy(answer) /\ ~StartsWith(answer, MarkerNoResults)
       THEN /\ final' = answer
            /\ pc' = "done"
            /\ UNCHANGED <<maxRetries, question, attempt, sql, results, vacation_context, answer, calls, driverLog>>
       ELSE IF attempt = maxRetries
       THEN /\ final' = answer
            /\ pc' = "done"
            /\ UNCHANGED <<maxRetries, question, attempt, sql, results, vacation_context, answer, calls, driverLog>>
       ELSE /\ question' = IF attempt = 0 THEN modified_question(question) ELSE question
            /\ attempt' = attempt + 1
            /\ pc' = "schema"
            /\ sql' = None
            /\ results' = ResNone
            /\ vacation_context' = <<>>
            /\ answer' = None
            /\ calls' = <<>>
            /\ driverLog' = <<>>
            /\ UNCHANGED <<final, maxRetries>>

----------------------------------------------------------------------------
(* The variables of a specification that is not running.                    *)

LimitIdle ==
    /\ nIn = <<>>
    /\ nPhase = "idle"
    /\ nOut = <<>>
    /\ nAgain = <<>>

\* no data text built yet
NoText == [raised |-> FALSE, rows |-> <<>>, tail |-> <<>>]

ShapeIdle ==
    /\ shIn = <<>>
    /\ shPhase = "idle"
    /\ shOut = <<>>
    /\ shText = NoText

ClassifyIdle ==
    /\ vqIn = <<>>
    /\ vqPhase = "idle"
    /\ vqOut = FALSE

\* execute_query has not returned yet
Unset == [kind |-> "unset", rows |-> <<>>, error |-> <<>>]

ExecIdle ==
    /\ xIn = <<>>
    /\ xPc = "idle"
    /\ xSql = None
    /\ xConn = "none"
    /\ xLog = <<>>
    /\ xRet = Unset

ChatIdle ==
    /\ history = <<>>
    /\ chPc = "idle"
    /\ chLine = None
    /\ chAsked = <<>>
    /\ chTurns = 0

\* a run of a question before its first attempt
NewRun(q) == [question |-> q, attempt |-> 0, calls |-> <<>>, printed |-> <<>>, answer |-> None, done |-> FALSE]

DebugIdle ==
    /\ entry = "idle"
    /\ runPlain = NewRun(None)
    /\ runDebug = NewRun(None)

OtherIdle == ClassifyIdle /\ ExecIdle /\ ChatIdle /\ DebugIdle

----------------------------------------------------------------------------
(* SpecGate: the two gate functions applied to generated SQL texts.  A     *)
(* text is a leading part followed by at most MaxPieces pieces; the pieces *)
(* are keywords, near-keywords, separators and injection markers, so       *)
(* that keyword sequences form at and off word boundaries.                 *)

MaxPieces == 3

GatePrefixes ==
    { <<>>,
      <<"S", "E", "L", "E", "C", "T", " ">>,
      <<"S", "E", "L", "E", "C", "T">>,
      <<"s", "e", "l", "e", "c", "t", "(">>,
      <<"\t", "W", "i", "t", "h", " ">>,
      <<"E", "X", "P", "L", "A", "I", "N", " ">> }

GatePieces ==
    { <<"D", "R", "O", "P">>,
      <<" ", "T", "A", "B", "L", "E">>,
      <<"_">>,
      <<"S">>,
      <<"d", "e", "l", "e", "t", "e", "\n", "f", "r", "o", "m">>,
      <<"u", "p", "d", "a", "t", "e", " ", "x">>,
      <<" ", "s", "e", "t">>,
      <<"(">>,
      <<"/", "*">>,
      <<";", "-", "-">>,
      <<" ", "o", "r", " ", "1", "=", "1">>,
      <<" ">> }

RECURSIVE Join(_)
Join(ps) == IF ps = <<>> THEN <<>> ELSE Head(ps) \o Join(Tail(ps))

GateInputs ==
    {None} \cup
    { pre \o Join(ps) : pre \in GatePrefixes, ps \in UNION {[1..n -> GatePieces] : n \in 0..MaxPieces} }

GateIdle ==
    /\ gIn = <<>>
    /\ gPhase = "idle"
    /\ gQuery = FALSE
    /\ gSql = FALSE

PipeIdle ==
    /\ pc = "idle"
    /\ question = <<>>
    /\ attempt = 0
    /\ sql = None
    /\ results = ResNone
    /\ vacation_context = <<>>
    /\ answer = None
    /\ final = None
    /\ calls = <<>>
    /\ driverLog = <<>>
    /\ maxRetries = 0

InitGate ==
    /\ gIn \in GateInputs
    /\ gPhase = "input"
    /\ gQuery = FALSE
    /\ gSql = FALSE
    /\ PipeIdle
    /\ LimitIdle
    /\ ShapeIdle
    /\ OtherIdle

\* test_sql_safety: both functions are called on the same text
CheckGate ==
    /\ gPhase = "input"
    /\ gPhase' = "checked"
    /\ gQuery' = is_safe_query(gIn)
    /\ gSql' = is_safe_sql(gIn)
    /\ UNCHANGED gIn
    /\ UNCHANGED <<pipeVars, limitVars, shapeVars, otherVars>>

NextGate == CheckGate

SpecGate == InitGate /\ [][NextGate]_vars

----------------------------------------------------------------------------
(* SpecLimit: add_limit_if_needed applied to a generated SQL text, and     *)
(* applied again to its own result.  A text is a leading part followed by  *)
(* at most MaxLimitPieces pieces: separators, a terminator, LIMIT clauses  *)
(* and a column whose name holds the letters of LIMIT.                     *)

MaxLimitPieces == 3

LimitPrefixes ==
    { <<>>,
      <<"S", "E", "L", "E", "C", "T", " ", "a">>,
      <<" ", " ", "s", "e", "l", "e", "c", "t", " ", "a">>,
      <<"\t", "S", "e", "l", "e", "c", "t", " ", "b">>,
      <<"W", "I", "T", "H", " ", "c">>,
      <<"I", "N", "S", "E", "R", "T", " ", "x">> }

LimitPieces ==
    { <<" ">>,
      <<";">>,
      <<"\n">>,
      <<" ", "F", "R", "O", "M", " ", "t">>,
      <<" ", "L", "I", "M", "I", "T", " ", "5">>,
      <<" ", "l", "i", "m", "i", "t", " ", "1", "0", "0", "0">>,
      <<",", " ", "r", "a", "t", "e", "_", "l", "i", "m", "i", "t">> }

LimitInputs ==
    {None} \cup
    { pre \o Join(ps) : pre \in LimitPrefixes, ps \in UNION {[1..n -> LimitPieces] : n \in 0..MaxLimitPieces} }

\* execute_query, database.py 86: sql = add_limit_if_needed(sql)
Normalize ==
    /\ nPhase = "input"
    /\ nPhase' = "once"
    /\ nOut' = add_limit_if_needed(nIn)
    /\ UNCHANGED <<nIn, nAgain>>
    /\ UNCHANGED <<pipeVars, gateVars, shapeVars, otherVars>>

\* add_limit_if_needed called on its own result
NormalizeAgain ==
    /\ nPhase = "once"
    /\ nPhase' = "twice"
    /\ nAgain' = add_limit_if_needed(nOut)
    /\ UNCHANGED <<nIn, nOut>>
    /\ UNCHANGED <<pipeVars, gateVars, shapeVars, otherVars>>

----------------------------------------------------------------------------
(* SpecShape: format_and_enhance_data applied to the rows of a result and  *)
(* the data text generate_response builds from the shaped rows.            *)

MaxMixedRows == 2

MaxPromptRows == 15

RowDuration == << <<<<"n", "a", "m", "e">>, StrVal(<<"A", "n", "n">>)>>, <<<<"t", "i", "m", "e", "_", "s", "p", "e", "n", "t">>, IntVal(1800000000)>> >>

RowAmounts == << <<<<"H", "o", "u", "r", "s">>, IntVal(3600000)>>, <<<<"s", "a", "l", "a", "r", "y">>, IntVal(2500000)>> >>

RowSmall == << <<<<"c", "o", "u", "n", "t">>, IntVal(3)>>, <<<<"t", "o", "t", "a", "l">>, IntVal(1000000)>> >>

ShapeRowKinds == {RowDuration, RowAmounts, RowSmall, RowDate}

\* the i-th row of a long result
NumberedRow(i, amount) == << <<<<"i", "d">>, IntVal(i)>>, <<<<"a", "m", "o", "u", "n", "t">>, IntVal(amount + i)>> >>

ShapeInputs ==
    UNION { [1..n -> ShapeRowKinds] : n \in 0..MaxMixedRows }
    \cup { [i \in 1..n |-> NumberedRow(i, amount)] : n \in 1..MaxPromptRows, amount \in {0, 2500000} }

\* llm.py 322-327: the rows json.dumps serializes and the text appended to
\* them; raised when json.dumps raises
MoreRows(n) == <<"\n", ".", ".", ".", " ", "a", "n", "d", " ">> \o Str(n) \o <<" ", "m", "o", "r", "e", " ", "r", "o", "w", "s">>

data_text(data) ==
    IF ~JsonSerializable(SerializedRows(data))
    THEN [raised |-> TRUE, rows |-> <<>>, tail |-> <<>>]
    ELSE IF Len(data) > PromptRows
    THEN [raised |-> FALSE, rows |-> SerializedRows(data), tail |-> MoreRows(Len(data) - PromptRows)]
    ELSE [raised |-> FALSE, rows |-> SerializedRows(data), tail |-> <<>>]

InitLimit ==
    /\ nIn \in LimitInputs
    /\ nPhase = "input"
    /\ nOut = <<>>
    /\ nAgain = <<>>
    /\ PipeIdle
    /\ GateIdle
    /\ ShapeIdle
    /\ OtherIdle

NextLimit == Normalize \/ NormalizeAgain

SpecLimit == InitLimit /\ [][NextLimit]_vars

InitShape ==
    /\ shIn \in ShapeInputs
    /\ shPhase = "input"
    /\ shOut = <<>>
    /\ shText = NoText
    /\ PipeIdle
    /\ GateIdle
    /\ LimitIdle
    /\ OtherIdle

\* generate_response, llm.py 304: data = format_and_enhance_data(data, question)
Shape ==
    /\ shPhase = "input"
    /\ shPhase' = "shaped"
    /\ shOut' = IF shIn = <<>> THEN shIn ELSE format_and_enhance_data(shIn)
    /\ UNCHANGED <<shIn, shText>>
    /\ UNCHANGED <<pipeVars, gateVars, limitVars, otherVars>>

\* generate_response, llm.py 297-298 and 321-327: the data text of the prompt
\* (no rows: generate_response has returned before)
Serialize ==
    /\ shPhase = "shaped"
    /\ shIn # <<>>
    /\ shPhase' = "serialized"
    /\ shText' = data_text(shOut)
    /\ UNCHANGED <<shIn, shOut>>
    /\ UNCHANGED <<pipeVars, gateVars, limitVars, otherVars>>

NextShape == Shape \/ Serialize

SpecShape == InitShape /\ [][NextShape]_vars

----------------------------------------------------------------------------
(* SpecClassify: main.is_vacation_question applied to questions: those of   *)
(* test_vacation_question_detection and texts put together from words in    *)
(* three languages, in lower, upper and mixed case, whole and cut short.    *)

MaxWords == 2

TestQuestions ==
    { <<"H", "o", "w", " ", "m", "a", "n", "y", " ", "v", "a", "c", "a", "t", "i", "o", "n", " ", "d", "a", "y", "s", " ", "d", "o", "e", "s", " ", "J", "o", "h", "n", " ", "h", "a", "v", "e", "?">>,
      <<"W", "h", "o", " ", "i", "s", " ", "o", "n", " ", "h", "o", "l", "i", "d", "a", "y", " ", "t", "h", "i", "s", " ", "w", "e", "e", "k", "?">>,
      <<"S", "h", "o", "w", " ", "m", "e", " ", "s", "i", "c", "k", " ", "l", "e", "a", "v", "e", " ", "f", "o", "r", " ", "t", "h", "e", " ", "t", "e", "a", "m">>,
      <<"u0421", "u043a", "u0456", "u043b", "u044c", "u043a", "u0438", " ", "u0434", "u043d", "u0456", "u0432", " ", "u0432", "u0456", "u0434", "u043f", "u0443", "u0441", "u0442", "u043a", "u0438", " ", "u0443", " ", "u041f", "u0435", "u0442", "u0440", "u0430", "?">>,
      <<"W", "h", "a", "t", " ", "i", "s", " ", "t", "h", "e", " ", "l", "e", "a", "v", "e", " ", "p", "o", "l", "i", "c", "y", "?">>,
      <<"H", "o", "w", " ", "m", "a", "n", "y", " ", "e", "m", "p", "l", "o", "y", "e", "e", "s", " ", "a", "r", "e", " ", "t", "h", "e", "r", "e", "?">>,
      <<"S", "h", "o", "w", " ", "m", "e", " ", "t", "h", "e", " ", "p", "r", "o", "j", "e", "c", "t", " ", "s", "t", "a", "t", "u", "s">>,
      <<"W", "h", "a", "t", " ", "a", "r", "e", " ", "t", "h", "e", " ", "t", "e", "a", "m", " ", "m", "e", "m", "b", "e", "r", "s", "?">>,
      <<"L", "i", "s", "t", " ", "a", "l", "l", " ", "d", "e", "v", "e", "l", "o", "p", "e", "r", "s">> }

QuestionStarts == { <<>>, <<"W", "h", "o", " ", "i", "s", " ", "o", "n", " ">>, <<"u0425", "u0442", "u043e", " ", "u0443", " ">> }

QuestionWords ==
    { <<"H", "O", "L", "I", "d", "a", "y">>, <<"h", "o", "l", "i">>, <<"d", "a", "y">>, <<"S", "i", "c", "k">>, <<"l", "e", "a", "v">>, <<"e">>, <<"t", "i", "m", "e">>, <<" ", "o", "f", "f">>, <<" ">>,
      <<"u041e", "u0422", "u041f", "u0423", "u0421", "u041a">>, <<"u041a", "u0430", "u043d", "u0438", "u043a", "u0443", "u043b">>, <<"u044b">>, <<"u0431", "u043e", "u043b", "u044c", "u043d", "u0438", "u0447", "u043d">>, <<"u044b", "u0439">>, <<"u0412", "u0406", "u0414", "u041f", "u0423", "u0421", "u0422">>, <<"u043a", "u0430", "u043d", "u0456", "u043a", "u0443", "u043b">>, <<"u041b", "u0456", "u043a", "u0430", "u0440">>, <<"u043d">>,
      <<"v", "a", "c", "a", "t">>, <<"I", "O", "N">> }

ClassifyInputs ==
    TestQuestions \cup
    { pre \o Join(ws) : pre \in QuestionStarts, ws \in UNION {[1..n -> QuestionWords] : n \in 0..MaxWords} }

InitClassify ==
    /\ vqIn \in ClassifyInputs
    /\ vqPhase = "input"
    /\ vqOut = FALSE
    /\ PipeIdle
    /\ GateIdle
    /\ LimitIdle
    /\ ShapeIdle
    /\ ExecIdle
    /\ ChatIdle
    /\ DebugIdle

\* test_vacation_question_detection: is_vacation_question(question)
Classify ==
    /\ vqPhase = "input"
    /\ vqPhase' = "classified"
    /\ vqOut' = is_vacation_question(vqIn)
    /\ UNCHANGED vqIn
    /\ UNCHANGED <<pipeVars, gateVars, limitVars, shapeVars, execVars, chatVars, debugVars>>

NextClassify == Classify

SpecClassify == InitClassify /\ [][NextClassify]_vars

----------------------------------------------------------------------------
(* SpecExec: database.execute_query step by step, with the connection it   *)
(* opens.  connect_db returns a connection or None (it catches what the    *)
(* driver raises); every later call to the driver returns or raises.       *)

ExecInputs ==
    { None, <<>>, SqlBlank, SqlPlain, SqlTerminated, SqlWith, SqlWithTable,
      SqlTautology, SqlDrop, SqlLimitColumn }

\* an exception leaves execute_query
Raised == [kind |-> "raised", rows |-> <<>>, error |-> <<>>]

InitExec ==
    /\ xIn \in ExecInputs
    /\ xPc = "call"
    /\ xSql = None
    /\ xConn = "none"
    /\ xLog = <<>>
    /\ xRet = Unset
    /\ PipeIdle
    /\ GateIdle
    /\ LimitIdle
    /\ ShapeIdle
    /\ ClassifyIdle
    /\ ChatIdle
    /\ DebugIdle

\* database.py 76-88: the checks before the try block
Enter ==
    /\ xPc = "call"
    /\ IF Falsy(xIn)
       THEN xRet' = ResNone /\ xPc' = "returned" /\ UNCHANGED xSql
       ELSE IF ~is_safe_sql(xIn)
       THEN xRet' = ResError(MsgBlocked) /\ xPc' = "returned" /\ UNCHANGED xSql
       ELSE xSql' = add_limit_if_needed(xIn) /\ xPc' = "connect" /\ UNCHANGED xRet
    /\ UNCHANGED <<xIn, xConn, xLog>>

\* database.py 90-92: conn = connect_db(config); if not conn: return None
Connect(ok) ==
    /\ xPc = "connect"
    /\ xLog' = Append(xLog, "connect")
    /\ IF ok
       THEN xConn' = "open" /\ xPc' = "cursor" /\ UNCHANGED xRet
       ELSE xRet' = ResNone /\ xPc' = "finally" /\ UNCHANGED xConn
    /\ UNCHANGED <<xIn, xSql>>

\* database.py 94: cursor = conn.cursor(...)
OpenCursor(raises) ==
    /\ xPc = "cursor"
    /\ xLog' = Append(xLog, IF raises THEN "cursor raised" ELSE "cursor")
    /\ xPc' = IF raises THEN "except" ELSE "execute"
    /\ UNCHANGED <<xIn, xSql, xConn, xRet>>

\* database.py 95-99: cursor.execute(sql) and the choice of the branch
ExecuteStatement(raises) ==
    /\ xPc = "execute"
    /\ xLog' = Append(xLog, IF raises THEN "execute raised" ELSE "execute")
    /\ \E sql_upper \in {Upper(Strip(xSql))} :
           xPc' = IF raises THEN "except"
                  ELSE IF StartsWith(sql_upper, kwSELECT)
                          \/ (StartsWith(sql_upper, kwWITH) /\ Contains(sql_upper, kwSELECT))
                  THEN "fetch"
                  ELSE "commit"
    /\ UNCHANGED <<xIn, xSql, xConn, xRet>>

\* database.py 100-112: results = cursor.fetchall() and the converted rows
Fetch(raises, rows) ==
    /\ xPc = "fetch"
    /\ xLog' = Append(xLog, IF raises THEN "fetchall raised" ELSE "fetchall")
    /\ IF raises
       THEN xPc' = "except" /\ UNCHANGED xRet
       ELSE xRet' = ResRows(rows) /\ xPc' = "finally"
    /\ UNCHANGED <<xIn, xSql, xConn>>

\* database.py 114-115: conn.commit()
Commit(raises) ==
    /\ xPc = "commit"
    /\ xLog' = Append(xLog, IF raises THEN "commit raised" ELSE "commit")
    /\ IF raises
       THEN xPc' = "except" /\ UNCHANGED xRet
       ELSE xRet' = ResAck /\ xPc' = "finally"
    /\ UNCHANGED <<xIn, xSql, xConn>>

\* database.py 117-121: the except clause; conn.rollback() is called outside
\* any try block, and an exception it raises leaves execute_query
Rollback(raises) ==
    /\ xPc = "except"
    /\ xLog' = Append(xLog, IF raises THEN "rollback raised" ELSE "rollback")
    /\ xRet' = IF raises THEN Raised ELSE ResNone
    /\ xPc' = "finally"
    /\ UNCHANGED <<xIn, xSql, xConn>>

\* database.py 122-124: finally: if conn: conn.close()
Finally ==
    /\ xPc = "finally"
    /\ IF xConn = "open"
       THEN xConn' = "closed" /\ xLog' = Append(xLog, "close")
       ELSE UNCHANGED <<xConn, xLog>>
    /\ xPc' = "returned"
    /\ UNCHANGED <<xIn, xSql, xRet>>

NextExec ==
    /\ \/ Enter
       \/ \E ok \in BOOLEAN : Connect(ok)
       \/ \E raises \in BOOLEAN : OpenCursor(raises)
       \/ \E raises \in BOOLEAN : ExecuteStatement(raises)
       \/ \E raises \in BOOLEAN, rows \in FetchSets : Fetch(raises, rows)
       \/ \E raises \in BOOLEAN : Commit(raises)
       \/ \E raises \in BOOLEAN : Rollback(raises)
       \/ Finally
    /\ UNCHANGED <<pipeVars, gateVars, limitVars, shapeVars, classifyVars, chatVars, debugVars>>

SpecExec == InitExec /\ [][NextExec]_vars

----------------------------------------------------------------------------
(* SpecChat: the loop of main.interactive.  Each step is one iteration:    *)
(* one line of input and what the loop does with it.                       *)
(* process_question_with_retry answers with any text.                      *)

MaxTurns == 3

ChatLines ==
    { <<"e", "x", "i", "t">>, <<" ", "Q", "U", "I", "T", " ">>, <<>>, <<" ", " ", " ">>, <<"h", "e", "l", "p">>, <<"H", "i", "s", "t", "o", "r", "y">>, <<"c", "l", "e", "a", "r">>, <<"S", "T", "A", "T", "U", "S">>,
      <<"H", "o", "w", " ", "m", "a", "n", "y", " ", "e", "m", "p", "l", "o", "y", "e", "e", "s", "?">>, <<"d", "e", "b", "u", "g", " ", "H", "o", "w", " ", "m", "a", "n", "y", " ", "e", "m", "p", "l", "o", "y", "e", "e", "s", "?">>, <<"d", "e", "b", "u", "g">>, <<"D", "e", "b", "u", "g", " ", " ", "h", "e", "l", "p">> }

ChatAnswers == { <<"3", " ", "e", "m", "p", "l", "o", "y", "e", "e", "s", ".">>, MsgNoResults }

\* elapsed_time, in seconds
ElapsedTimes == {1, 2}

cmdExit == { <<"e", "x", "i", "t">>, <<"q", "u", "i", "t">> }

cmdHelp == <<"h", "e", "l", "p">>

cmdHistory == <<"h", "i", "s", "t", "o", "r", "y">>

cmdClear == <<"c", "l", "e", "a", "r">>

cmdStatus == <<"s", "t", "a", "t", "u", "s">>

PrefixDebug == <<"d", "e", "b", "u", "g", " ">>

InitChat ==
    /\ history = <<>>
    /\ chPc = "prompt"
    /\ chLine = None
    /\ chAsked = <<>>
    /\ chTurns = 0
    /\ PipeIdle
    /\ GateIdle
    /\ LimitIdle
    /\ ShapeIdle
    /\ ClassifyIdle
    /\ ExecIdle
    /\ DebugIdle

\* main.py 461: question = input(...).strip()
ReadLine(line) ==
    /\ chPc = "prompt"
    /\ chTurns < MaxTurns
    /\ chTurns' = chTurns + 1
    /\ chLine' = line

\* main.py 463-465: exit and quit
Quit(line) ==
    /\ ReadLine(line)
    /\ Lower(Strip(line)) \in cmdExit
    /\ chPc' = "ended"
    /\ UNCHANGED <<history, chAsked>>

\* main.py 467-468: an empty line
Skip(line) ==
    /\ ReadLine(line)
    /\ Lower(Strip(line)) \notin cmdExit
    /\ Strip(line) = <<>>
    /\ UNCHANGED <<history, chPc, chAsked>>

\* main.py 471-496 and 503-514: help, history and status print and continue
\* (status calls get_schema and keeps nothing of it)
Report(line) ==
    /\ ReadLine(line)
    /\ Lower(Strip(line)) \in {cmdHelp, cmdHistory, cmdStatus}
    /\ UNCHANGED <<history, chPc, chAsked>>

\* main.py 498-501: history.clear()
Clear(line) ==
    /\ ReadLine(line)
    /\ Lower(Strip(line)) = cmdClear
    /\ history' = <<>>
    /\ UNCHANGED <<chPc, chAsked>>

\* Ask that keeps no entry for a question asked with the debug prefix
Ask_undebugged(line, ans, elapsed_time) ==
    /\ ReadLine(line)
    /\ \E typed \in {Strip(line)} :
           /\ typed # <<>>
           /\ Lower(typed) \notin cmdExit \cup {cmdHelp, cmdHistory, cmdClear, cmdStatus}
           /\ \E debug_mode \in {StartsWith(Lower(typed), PrefixDebug)} :
              \E q \in {IF debug_mode THEN Strip(SubSeq(typed, Len(PrefixDebug) + 1, Len(typed))) ELSE typed} :
                  IF q = <<>>
                  THEN UNCHANGED <<history, chAsked>>
                  ELSE /\ chAsked' = Append(chAsked, <<q, debug_mode>>)
                       /\ history' = IF debug_mode THEN history ELSE Append(history, <<q, ans, elapsed_time>>)
    /\ UNCHANGED chPc

\* main.py 516-541: a question, with or without the debug prefix
Ask(line, ans, elapsed_time) ==
    /\ ReadLine(line)
    /\ \E typed \in {Strip(line)} :
           /\ typed # <<>>
           /\ Lower(typed) \notin cmdExit \cup {cmdHelp, cmdHistory, cmdClear, cmdStatus}
           /\ \E debug_mode \in {StartsWith(Lower(typed), PrefixDebug)} :
              \E q \in {IF debug_mode THEN Strip(SubSeq(typed, Len(PrefixDebug) + 1, Len(typed))) ELSE typed} :
                  IF q = <<>>
                  THEN UNCHANGED <<history, chAsked>>
                  ELSE /\ chAsked' = Append(chAsked, <<q, debug_mode>>)
                       /\ history' = Append(history, <<q, ans, elapsed_time>>)
    /\ UNCHANGED chPc

\* main.py 528 and 543-546: KeyboardInterrupt while the question is processed
AskInterrupted(line) ==
    /\ ReadLine(line)
    /\ \E typed \in {Strip(line)} :
           /\ typed # <<>>
           /\ Lower(typed) \notin cmdExit \cup {cmdHelp, cmdHistory, cmdClear, cmdStatus}
           /\ \E debug_mode \in {StartsWith(Lower(typed), PrefixDebug)} :
              \E q \in {IF debug_mode THEN Strip(SubSeq(typed, Len(PrefixDebug) + 1, Len(typed))) ELSE typed} :
                  /\ q # <<>>
                  /\ chAsked' = Append(chAsked, <<q, debug_mode>>)
    /\ chPc' = "ended"
    /\ UNCHANGED history

\* main.py 543-548: input() raises: KeyboardInterrupt ends the loop, any
\* other exception (EOFError) is reported and the loop goes on
InputRaises(interrupt) ==
    /\ chPc = "prompt"
    /\ chTurns < MaxTurns
    /\ chTurns' = chTurns + 1
    /\ chLine' = None
    /\ chPc' = IF interrupt THEN "ended" ELSE "prompt"
    /\ UNCHANGED <<history, chAsked>>

NextChat ==
    /\ \/ \E line \in ChatLines : Quit(line)
       \/ \E line \in ChatLines : Skip(line)
       \/ \E line \in ChatLines : Report(line)
       \/ \E line \in ChatLines : Clear(line)
       \/ \E line \in ChatLines, ans \in ChatAnswers, elapsed_time \in ElapsedTimes : Ask(line, ans, elapsed_time)
       \/ \E line \in ChatLines : AskInterrupted(line)
       \/ \E interrupt \in BOOLEAN : InputRaises(interrupt)
    /\ UNCHANGED <<pipeVars, gateVars, limitVars, shapeVars, classifyVars, execVars, debugVars>>

SpecChat == InitChat /\ [][NextChat]_vars

----------------------------------------------------------------------------
(* SpecDebug: the same question run twice, with debug=False and with       *)
(* debug=True, the collaborators answering both runs alike.  A run is the  *)
(* record of its question, attempt, collaborator calls, debug output and   *)
(* answer; process_question is computed as a function of the question, the *)
(* debug flag and the collaborators' responses of one attempt.             *)

\* one line of debug output
Line(label, text) == [label |-> label, text |-> text]

\* what a print under 'if debug:' adds to the output
Printed(debug, line) == IF debug THEN <<line>> ELSE <<>>

\* process_question returns ans
Ended(made, printed, ans) == [calls |-> made, printed |-> printed, answer |-> ans]

\* main.py 205-253: from the check of the results to the return
AfterExecution(q, debug, r, res, made, printed) ==
    IF res.kind = "none" THEN Ended(made, printed, ErrExecute)
    ELSE IF res.kind = "error" THEN Ended(made, printed, PrefixDatabaseError \o res.error)
    ELSE LET rowsLine == Printed(debug, Line("Query results", Str(IF res.kind = "rows" THEN Len(res.rows) ELSE 1)))
             vac == is_vacation_question(q)
             context == IF vac /\ r.vac.kind = "data"
                        THEN VacationSentence(r.vac.n_users, r.vac.n_requests) ELSE <<>>
             vacCalls == IF vac THEN <<Call("load_vacation_data", <<>>, r.vac.kind, <<>>)>> ELSE <<>>
             vacLine == IF vac /\ r.vac.kind = "data"
                        THEN Printed(debug, Line("Added vacation context", Str(r.vac.n_users) \o <<" ", "u", "s", "e", "r", "s", ",", " ">> \o Str(r.vac.n_requests) \o <<" ", "r", "e", "q", "u", "e", "s", "t", "s">>))
                        ELSE IF vac /\ r.vac.kind = "raise"
                        THEN Printed(debug, Line("Vacation context failed", <<>>))
                        ELSE <<>>
             enhanced_question == q \o context
             g == generate_response(enhanced_question, res, r.llm)
             response == IF ~Falsy(g.text) THEN g.text
                         ELSE IF res.kind = "rows" THEN MsgFound(Len(res.rows))
                         ELSE MsgExecuted
             all == made \o vacCalls
                        \o (IF g.asked THEN <<Call("call_openrouter", enhanced_question, r.llm.kind, r.llm.content)>> ELSE <<>>)
                        \o <<Call("generate_response", enhanced_question, IF g.raised THEN "raised" ELSE "text", res.rows)>>
         IN  IF g.raised
             THEN Ended(all, printed \o rowsLine \o vacLine \o Printed(debug, Line("Error", g.text)), PrefixProcessing \o g.text)
             ELSE Ended(all, printed \o rowsLine \o vacLine \o Printed(debug, Line("Processing complete", <<>>)), response)

\* main.py 188-203: the correction sub-cycle after a failed execution
Corrected(q, debug, r, failed, made, printed) ==
    LET fix == Call("fix_sql_error", failed, IF r.fix = None THEN "none" ELSE "text", r.fix)
        fixed_sql == clean_sql(r.fix)
    IN  IF Falsy(r.fix) \/ Falsy(fixed_sql)
        THEN AfterExecution(q, debug, r, ResNone, Append(made, fix), printed)
        ELSE IF ~is_safe_query(fixed_sql)
        THEN AfterExecution(q, debug, r, ResNone,
                            made \o <<fix, Call("is_safe_query", fixed_sql, "blocked", <<>>)>>, printed)
        ELSE LET again == execute_query(fixed_sql, r.d2).result
             IN  AfterExecution(q, debug, r, again,
                                made \o <<fix, Call("is_safe_query", fixed_sql, "safe", <<>>),
                                          Call("execute_query", fixed_sql, again.kind, again.rows)>>,
                                printed \o Printed(debug, Line("Fixed SQL", fixed_sql)))

\* main.py 131-259: process_question(question, config, debug) when the
\* collaborators answer r
process_question(q, debug, r) ==
    LET head == Printed(debug, Line("Question", q))
                    \o Printed(debug, Line("Vacation question", IF is_vacation_question(q) THEN <<"T", "r", "u", "e">> ELSE <<"F", "a", "l", "s", "e">>))
        fetched == <<Call("get_schema", <<>>, IF r.schema = None THEN "none" ELSE "tables", <<>>)>>
    IN  IF Falsy(r.schema) THEN Ended(fetched, head, ErrSchema)
        ELSE LET loaded == head \o Printed(debug, Line("Schema loaded", Str(Len(r.schema))))
                 gen == Call("generate_sql", q, IF r.gen = None THEN "none" ELSE "text", r.gen)
             IN  IF Falsy(r.gen) THEN Ended(Append(fetched, gen), loaded, ErrGenerate)
                 ELSE LET generated == loaded \o Printed(debug, Line("Generated SQL", r.gen))
                          cleaned == clean_sql(r.gen)
                      IN  IF Falsy(cleaned) THEN Ended(Append(fetched, gen), generated, ErrEmpty)
                          ELSE IF ~is_safe_query(cleaned)
                          THEN Ended(fetched \o <<gen, Call("is_safe_query", cleaned, "blocked", <<>>)>>, generated, ErrUnsafe)
                          ELSE LET first == execute_query(cleaned, r.d1).result
                                   made == fetched \o <<gen, Call("is_safe_query", cleaned, "safe", <<>>),
                                                        Call("execute_query", cleaned, first.kind, first.rows)>>
                               IN  IF first.kind = "none"
                                   THEN Corrected(q, debug, r, cleaned, made, generated)
                                   ELSE AfterExecution(q, debug, r, first, made, generated)

\* main.py 107-127: one turn of the loop of process_question_with_retry,
\* p being what process_question gave for the attempt
process_question_with_retry(run, debug, p) ==
    LET banner == IF run.attempt > 0 THEN Printed(debug, Line("RETRY ATTEMPT", Str(run.attempt))) ELSE <<>>
    IN  IF (~Falsy(p.answer) /\ ~StartsWith(p.answer, MarkerNoResults)) \/ run.attempt = max_retries
        THEN [run EXCEPT !.calls = run.calls \o p.calls, !.printed = run.printed \o banner \o p.printed,
                         !.answer = p.answer, !.done = TRUE]
        ELSE [run EXCEPT !.calls = run.calls \o p.calls,
                         !.printed = run.printed \o banner \o p.printed
                                         \o (IF run.attempt = 0
                                             THEN Printed(debug, Line("Retrying with modified question", modified_question(run.question)))
                                             ELSE <<>>),
                         !.question = IF run.attempt = 0 THEN modified_question(run.question) ELSE run.question,
                         !.attempt = run.attempt + 1]

\* main.py 415-425: the debug command: one call of process_question with
\* debug=True, and its answer is the final answer
debug_command(run, p) ==
    [run EXCEPT !.calls = p.calls, !.printed = p.printed, !.answer = p.answer, !.done = TRUE]

\* the collaborators' responses of one attempt
AttemptResponses ==
    [ schema : SchemaOutputs,
      gen : {None, SqlPlain, SqlFenceOnly, SqlDrop},
      d1 : {d \in DriverOutcomes : ~d.raises /\ d.rows \in {<<>>, <<RowCount>>}},
      fix : {None, SqlPlain},
      d2 : {d \in DriverOutcomes : ~d.raises /\ d.rows \in {<<>>, <<RowCount>>}},
      vac : VacationOutcomes,
      llm : {l \in LlmOutcomes : l.kind = "error" \/ l.content = <<"A", "n", "s", "w", "e", "r", ":", " ", "3", " ", "e", "m", "p", "l", "o", "y", "e", "e", "s", ".">>} ]

\* entry "interactive": the question typed at the prompt, and typed after
\* 'debug ' (main.py 528).  entry "command": the ask command (main.py 300)
\* and the debug command (main.py 424)
InitDebug ==
    /\ entry \in {"interactive", "command"}
    /\ \E q \in Questions :
           /\ runPlain = NewRun(q)
           /\ runDebug = NewRun(q)
    /\ PipeIdle
    /\ GateIdle
    /\ LimitIdle
    /\ ShapeIdle
    /\ ClassifyIdle
    /\ ExecIdle
    /\ ChatIdle

\* both runs make their next attempt and the collaborators answer r
Attempt(r) ==
    /\ ~runPlain.done \/ ~runDebug.done
    /\ \E p \in {process_question(runPlain.question, FALSE, r)} :
           runPlain' = IF runPlain.done THEN runPlain ELSE process_question_with_retry(runPlain, FALSE, p)
    /\ \E p \in {process_question(runDebug.question, TRUE, r)} :
           runDebug' = IF runDebug.done THEN runDebug
                       ELSE IF entry = "command" THEN debug_command(runDebug, p)
                       ELSE process_question_with_retry(runDebug, TRUE, p)
    /\ UNCHANGED entry

NextDebug ==
    /\ \E r \in AttemptResponses : Attempt(r)
    /\ UNCHANGED <<pipeVars, gateVars, limitVars, shapeVars, classifyVars, execVars, chatVars>>

SpecDebug == InitDebug /\ [][NextDebug]_vars

----------------------------------------------------------------------------
(* Spec: one question through process_question_with_retry.                  *)

Init == InitPipe /\ GateIdle /\ LimitIdle /\ ShapeIdle /\ OtherIdle

Next ==
    /\ \/ \E out \in SchemaOutputs : FetchSchema(out)
       \/ \E out \in SqlOutputs : GenerateSQL(out)
       \/ \E d \in DriverOutcomes : Execute(d)
       \/ \E out \in SqlOutputs : FixSQL(out)
       \/ \E d \in DriverOutcomes : ExecuteFixed(d)
       \/ \E v \in VacationOutcomes : VacationContext(v)
       \/ \E llm \in LlmOutcomes : GenerateResponse(llm)
       \/ \E e \in ExceptionTexts, reached \in BOOLEAN : ExceptClause(e, reached)
       \/ RetryDecision
    /\ UNCHANGED <<gateVars, limitVars, shapeVars, otherVars>>

Spec == Init /\ [][Next]_vars

\* process_question_with_retry called with the default max_retries; it is
\* sequential code whose collaborators return (or raise): a step that can
\* be taken is taken
InitLive == Init /\ maxRetries = max_retries

SpecLive == InitLive /\ [][Next]_vars /\ WF_vars(Next)

----------------------------------------------------------------------------
(* What the properties below speak of, stated on the text itself and not    *)
(* through the gate functions.                                              *)

\* the trimmed upper-cased text begins with SELECT or WITH
BeginsWithReadKeyword(s) ==
    \E u \in {Upper(Strip(s))} : StartsWith(u, <<"S", "E", "L", "E", "C", "T">>) \/ StartsWith(u, <<"W", "I", "T", "H">>)

AllWhitespace(s) == \A i \in 1..Len(s) : s[i] \in Whitespace

NotWordAt(u, i) == i < 1 \/ i > Len(u) \/ u[i] \notin WordChars

\* the words a and b, in this order, separated by whitespace only, neither
\* of them part of a longer word
WordsAdjacent(u, a, b) ==
    \E i \in 1..Len(u) :
        /\ u[i] = a[1]
        /\ At(u, i, a)
        /\ NotWordAt(u, i - 1)
        /\ \E j \in (i + Len(a) + 1)..Len(u) :
              /\ At(u, j, b)
              /\ \A m \in (i + Len(a))..(j - 1) : u[m] \in Whitespace
              /\ NotWordAt(u, j + Len(b))

\* the word a, whitespace, an identifier, whitespace, the word b
WordsAroundIdentifier(u, a, b) ==
    \E i \in 1..Len(u) :
        /\ u[i] = a[1]
        /\ At(u, i, a)
        /\ NotWordAt(u, i - 1)
        /\ \E j \in (i + Len(a) + 1)..Len(u) :
              /\ \A m \in (i + Len(a))..(j - 1) : u[m] \in Whitespace
              /\ u[j] \in WordChars
              /\ \E k \in (j + 1)..Len(u) :
                    /\ \A m \in j..(k - 1) : u[m] \in WordChars
                    /\ u[k] \in Whitespace
                    /\ \E l \in (k + 1)..Len(u) :
                          /\ \A m \in k..(l - 1) : u[m] \in Whitespace
                          /\ At(u, l, b)
                          /\ NotWordAt(u, l + Len(b))

\* DROP TABLE|DATABASE|SCHEMA, DELETE FROM, INSERT INTO, UPDATE <ident> SET,
\* TRUNCATE TABLE, ALTER TABLE, CREATE TABLE|DATABASE|SCHEMA, in any case
HasDangerousSequence(s) ==
    \E u \in {Upper(s)} :
        \/ \E o \in {<<"T", "A", "B", "L", "E">>, <<"D", "A", "T", "A", "B", "A", "S", "E">>, <<"S", "C", "H", "E", "M", "A">>} : WordsAdjacent(u, <<"D", "R", "O", "P">>, o) \/ WordsAdjacent(u, <<"C", "R", "E", "A", "T", "E">>, o)
        \/ WordsAdjacent(u, <<"D", "E", "L", "E", "T", "E">>, <<"F", "R", "O", "M">>)
        \/ WordsAdjacent(u, <<"I", "N", "S", "E", "R", "T">>, <<"I", "N", "T", "O">>)
        \/ WordsAdjacent(u, <<"T", "R", "U", "N", "C", "A", "T", "E">>, <<"T", "A", "B", "L", "E">>)
        \/ WordsAdjacent(u, <<"A", "L", "T", "E", "R">>, <<"T", "A", "B", "L", "E">>)
        \/ WordsAroundIdentifier(u, <<"U", "P", "D", "A", "T", "E">>, <<"S", "E", "T">>)

\* ;--  /*  */  OR 1=1  OR 1 = 1, in any case
HasInjectionMarker(s) ==
    \E u \in {Upper(s)} :
        \/ Contains(u, <<";", "-", "-">>) \/ Contains(u, <<"/", "*">>) \/ Contains(u, <<"*", "/">>)
        \/ Contains(u, <<"O", "R", " ", "1", "=", "1">>) \/ Contains(u, <<"O", "R", " ", "1", " ", "=", " ", "1">>)

CallIdx(fn) == {i \in DOMAIN calls : calls[i].fn = fn}

Returned == pc \in {"returned", "done"}

\* the answer is one of the error strings of process_question
IsErrorMessage(a) == StartsWith(a, <<"E", "r", "r", "o", "r">>) \/ StartsWith(a, <<"D", "a", "t", "a", "b", "a", "s", "e", " ", "e", "r", "r", "o", "r">>)

----------------------------------------------------------------------------
(* The claims.                                                              *)

\* C1: every SQL text that execute_query hands to the database driver for a
\* candidate begins (trimmed, upper-cased) with SELECT or WITH, holds no
\* dangerous keyword sequence and holds no injection marker.
C1_DriverTextsApproved ==
    \A i \in DOMAIN driverLog :
        /\ BeginsWithReadKeyword(driverLog[i])
        /\ ~HasDangerousSequence(driverLog[i])
        /\ ~HasInjectionMarker(driverLog[i])

\* C1 witness: the driver was handed the initial candidate and then a
\* different corrected one.
C1_Witness == Len(driverLog) = 2 /\ driverLog[1] # driverLog[2]

\* C2: a text that is empty, all whitespace, or does not begin (trimmed,
\* upper-cased) with SELECT or WITH is rejected by is_safe_query and by
\* is_safe_sql, whatever else it contains.
C2_FailsClosed ==
    (gPhase = "checked" /\ (gIn = None \/ AllWhitespace(gIn) \/ ~BeginsWithReadKeyword(gIn)))
        => (~gQuery /\ ~gSql)

\* C2 witness: a text that begins with another keyword and holds nothing
\* dangerous was rejected by both functions.
C2_Witness ==
    /\ gPhase = "checked"
    /\ gIn # None
    /\ ~AllWhitespace(gIn)
    /\ ~BeginsWithReadKeyword(gIn)
    /\ ~HasDangerousSequence(gIn)
    /\ ~HasInjectionMarker(gIn)
    /\ ~gQuery
    /\ ~gSql

\* C3: a text that holds a dangerous keyword sequence at word boundaries is
\* rejected by both gate functions, also when it begins with SELECT or WITH;
\* a text that begins with SELECT or WITH and holds these words only inside
\* longer identifiers is accepted by is_safe_query, and by is_safe_sql unless
\* it holds an injection marker.
C3_DangerousSequences ==
    (gPhase = "checked" /\ gIn # None) =>
        /\ HasDangerousSequence(gIn) => (~gQuery /\ ~gSql)
        /\ (BeginsWithReadKeyword(gIn) /\ ~HasDangerousSequence(gIn)) =>
              (gQuery /\ (gSql <=> ~HasInjectionMarker(gIn)))

\* C3 witness: a text that begins with SELECT and holds DROP TABLE inside
\* parentheses was rejected by both functions.
C3_Witness ==
    /\ gPhase = "checked"
    /\ gIn # None
    /\ BeginsWithReadKeyword(gIn)
    /\ Contains(gIn, <<"(", "D", "R", "O", "P">>)
    /\ HasDangerousSequence(gIn)
    /\ ~gQuery
    /\ ~gSql

\* C4 (as claimed): a candidate that holds an injection marker is rejected
\* at GateCheck and the attempt ends with the unsafe-operations message.
C4_MarkerBlockedAtGateCheck ==
    (Len(calls) >= 3 /\ calls[3].fn = "is_safe_query" /\ HasInjectionMarker(calls[3].arg))
        => (calls[3].res = "blocked" /\ Returned /\ answer = ErrUnsafe)

\* C5: when GateCheck rejects the initial candidate the attempt ends with
\* the unsafe-operations message, and neither execute_query nor
\* fix_sql_error is called in that attempt.
C5_BlockNotEscalated ==
    (Len(calls) >= 3 /\ calls[3].fn = "is_safe_query" /\ ~is_safe_query(calls[3].arg))
        => /\ Returned
           /\ answer = ErrUnsafe
           /\ CallIdx("execute_query") = {}
           /\ CallIdx("fix_sql_error") = {}

\* C5 witness: a candidate that begins with SELECT and holds a dangerous
\* sequence ended the attempt at GateCheck.
C5_Witness ==
    /\ pc = "returned"
    /\ answer = ErrUnsafe
    /\ Len(calls) = 3
    /\ calls[3].arg = SqlStacked

\* C6: in one attempt fix_sql_error is called at most once, and only right
\* after the execution of the initial candidate returned None; execute_query
\* is called at most twice, the second time only after the correction.
C6_SingleCorrection ==
    /\ Cardinality(CallIdx("fix_sql_error")) <= 1
    /\ Cardinality(CallIdx("execute_query")) <= 2
    /\ \A i \in CallIdx("fix_sql_error") :
          /\ i > 1
          /\ calls[i - 1].fn = "execute_query"
          /\ calls[i - 1].res = "none"
          /\ CallIdx("execute_query") \cap (1..i) = {i - 1}
    /\ \A i, j \in CallIdx("execute_query") :
          i < j => \E k \in CallIdx("fix_sql_error") : i < k /\ k < j

\* C6 witness: the corrected candidate failed too and the attempt ended
\* after one correction and two executions.
C6_Witness ==
    /\ pc = "returned"
    /\ answer = ErrExecute
    /\ Cardinality(CallIdx("fix_sql_error")) = 1
    /\ Cardinality(CallIdx("execute_query")) = 2

\* C7 (as claimed): when the first execution returned None, the corrected
\* candidate passed GateCheck and its execution returned rows, the answer of
\* the attempt comes from generate_response on these rows and is no error
\* message.
C7_CorrectedRowsAnswered ==
    (/\ Returned
     /\ Cardinality(CallIdx("execute_query")) = 2
     /\ results.kind = "rows")
        => /\ \E k \in CallIdx("generate_response") : calls[k].out = results.rows
           /\ ~IsErrorMessage(answer)

\* C8 (as claimed): when the first execution returned None and the
\* corrected SQL is missing, empty, unsafe or fails again (no collaborator
\* raising), the attempt ends with the execution-failure message.
C8_GivesUpAfterCorrection ==
    \A i \in CallIdx("fix_sql_error") :
        (/\ Returned
         /\ \A k \in DOMAIN calls : calls[k].res # "raised"
         /\ \/ Falsy(calls[i].out)
            \/ Falsy(clean_sql(calls[i].out))
            \/ ~is_safe_query(clean_sql(calls[i].out))
            \/ ~is_safe_sql(clean_sql(calls[i].out))
            \/ results.kind = "none")
            => answer = ErrExecute

\* C9: when the execution of the initial candidate returns an error
\* payload the attempt ends with 'Database error: <error>', and neither
\* fix_sql_error nor generate_response is called.
C9_ErrorPayloadReported ==
    (Cardinality(CallIdx("execute_query")) = 1 /\ results.kind = "error")
        => /\ Returned
           /\ answer = <<"D", "a", "t", "a", "b", "a", "s", "e", " ", "e", "r", "r", "o", "r", ":", " ">> \o results.error
           /\ CallIdx("fix_sql_error") = {}
           /\ CallIdx("generate_response") = {}

\* C9 witness: the executor refused the initial candidate and the attempt
\* ended with the database-error message.
C9_Witness ==
    /\ pc = "returned"
    /\ Cardinality(CallIdx("execute_query")) = 1
    /\ results.kind = "error"
    /\ answer = <<"D", "a", "t", "a", "b", "a", "s", "e", " ", "e", "r", "r", "o", "r", ":", " ", "U", "n", "s", "a", "f", "e", " ", "S", "Q", "L", " ", "q", "u", "e", "r", "y", " ", "b", "l", "o", "c", "k", "e", "d">>

\* the attempt ended before GateCheck: no schema, no generated text, or a
\* generated text that is empty once cleaned
EndedBeforeGate ==
    \/ (Len(calls) >= 1 /\ calls[1].fn = "get_schema" /\ calls[1].res = "none")
    \/ (Len(calls) >= 2 /\ calls[2].fn = "generate_sql" /\ calls[2].res # "raised"
           /\ (Falsy(calls[2].out) \/ Falsy(clean_sql(calls[2].out))))

\* C10: when the schema fetch returns nothing, or the generator returns
\* nothing or empty text, or the cleaned SQL is empty, the attempt ends with
\* an 'Error: ...' string, with no execution and no correction, and
\* process_question_with_retry returns that string without another attempt.
C10_EarlyFailureIsFinal ==
    /\ [](EndedBeforeGate =>
            /\ Returned
            /\ answer \in {ErrSchema, ErrGenerate, ErrEmpty}
            /\ StartsWith(answer, <<"E", "r", "r", "o", "r", ":", " ">>)
            /\ CallIdx("execute_query") = {}
            /\ CallIdx("fix_sql_error") = {}
            /\ (pc = "done" => final = answer))
    /\ [][(EndedBeforeGate /\ pc = "returned") =>
            (pc' = "done" /\ final' = answer /\ attempt' = attempt)]_vars

\* C10 witness: the generator gave only a code fence, and the question
\* ended at its first attempt with the empty-SQL message.
C10_Witness ==
    /\ pc = "done"
    /\ attempt = 0
    /\ final = ErrEmpty
    /\ calls[2].out = SqlFenceOnly

\* C11: with the default max_retries = 2 the attempts are numbered 0, 1, 2
\* (at least one and at most three attempts), and process_question_with_retry
\* eventually returns an answer.
C11_AtMostThreeAttempts ==
    /\ [](maxRetries = 2 /\ attempt >= 0 /\ attempt + 1 <= 3)
    /\ <>(pc = "done" /\ final = answer /\ final # None)

\* C11 witness: the question ended at its third attempt.
C11_Witness ==
    /\ pc = "done"
    /\ maxRetries = max_retries
    /\ attempt + 1 = 3
    /\ final = answer

\* C12: a further attempt starts only when the answer of the attempt begins
\* with 'No results found' and attempts remain; every other answer becomes
\* the final answer at once.
C12_RetryOnlyOnNoResults ==
    [][pc = "returned" =>
          IF StartsWith(answer, <<"N", "o", " ", "r", "e", "s", "u", "l", "t", "s", " ", "f", "o", "u", "n", "d">>) /\ attempt < maxRetries
          THEN pc' = "schema" /\ attempt' = attempt + 1 /\ final' = final
          ELSE pc' = "done" /\ final' = answer /\ attempt' = attempt]_vars

\* C12 witness: the second attempt's answer was an error string and was
\* returned with a third attempt still allowed.
C12_Witness ==
    /\ pc = "done"
    /\ attempt = 1
    /\ maxRetries = 2
    /\ StartsWith(final, <<"D", "a", "t", "a", "b", "a", "s", "e", " ", "e", "r", "r", "o", "r", ":", " ">>)

\* C13: when process_question_with_retry has returned, its value is the
\* answer of the last attempt, also when every attempt's answer began with
\* 'No results found'; it is never the synthesized 'Unable to find results
\* after multiple attempts.', for max_retries 0, 1 and 2.
C13_LastAnswerVerbatim ==
    pc = "done" =>
        /\ final = answer
        /\ final # <<"U", "n", "a", "b", "l", "e", " ", "t", "o", " ", "f", "i", "n", "d", " ", "r", "e", "s", "u", "l", "t", "s", " ", "a", "f", "t", "e", "r", " ", "m", "u", "l", "t", "i", "p", "l", "e", " ", "a", "t", "t", "e", "m", "p", "t", "s", ".">>
        /\ (StartsWith(final, <<"N", "o", " ", "r", "e", "s", "u", "l", "t", "s", " ", "f", "o", "u", "n", "d">>) => attempt = maxRetries)

\* C13 witness: all three attempts ended with a 'No results found' answer
\* and the last one was returned.
C13_Witness ==
    /\ pc = "done"
    /\ maxRetries = 2
    /\ attempt = 2
    /\ StartsWith(final, <<"N", "o", " ", "r", "e", "s", "u", "l", "t", "s", " ", "f", "o", "u", "n", "d">>)
    /\ final = answer

\* the three questions with 'последн', 'recent' and 'last week' replaced, in
\* this order, at every occurrence
RewrittenAs(q) ==
    CASE q = <<"H", "o", "w", " ", "m", "a", "n", "y", " ", "e", "m", "p", "l", "o", "y", "e", "e", "s", "?">> -> <<"H", "o", "w", " ", "m", "a", "n", "y", " ", "e", "m", "p", "l", "o", "y", "e", "e", "s", "?">>
      [] q = <<"r", "e", "c", "e", "n", "t", " ", "l", "e", "a", "v", "e", " ", "l", "a", "s", "t", " ", "w", "e", "e", "k", ",", " ", "r", "e", "c", "e", "n", "t", " ", "h", "i", "r", "e", "s">> -> <<"i", "n", " ", "2", "0", "2", "5", " ", "l", "e", "a", "v", "e", " ", "i", "n", " ", "N", "o", "v", "e", "m", "b", "e", "r", " ", "2", "0", "2", "5", ",", " ", "i", "n", " ", "2", "0", "2", "5", " ", "h", "i", "r", "e", "s">>
      [] q = <<"u043f", "u043e", "u0441", "u043b", "u0435", "u0434", "u043d", "u0438", "u0435", " ", "u0437", "u0430", "u0434", "u0430", "u0447", "u0438">> -> <<"u0437", "u0430", " ", "2", "0", "2", "5", " ", "u0433", "u043e", "u0434", "u0438", "u0435", " ", "u0437", "u0430", "u0434", "u0430", "u0447", "u0438">>
      [] OTHER -> None

\* C14: when the first attempt's answer begins with 'No results found' the
\* second attempt runs with the rewritten question (every 'последн', 'recent'
\* and 'last week' replaced); a third attempt keeps that text, and every
\* generate_sql call of an attempt receives the attempt's question.
C14_SecondAttemptRewritten ==
    [][/\ \A k \in CallIdx("generate_sql") : calls[k].arg = question
       /\ (pc = "returned" /\ pc' = "schema") =>
             /\ StartsWith(answer, <<"N", "o", " ", "r", "e", "s", "u", "l", "t", "s", " ", "f", "o", "u", "n", "d">>)
             /\ question' = IF attempt = 0 THEN RewrittenAs(question) ELSE question
             /\ ~Contains(question', <<"r", "e", "c", "e", "n", "t">>)
             /\ ~Contains(question', <<"l", "a", "s", "t", " ", "w", "e", "e", "k">>)
             /\ ~Contains(question', <<"u043f", "u043e", "u0441", "u043b", "u0435", "u0434", "u043d">>)]_vars

\* C14 witness: the generator of the second attempt received the rewritten
\* question, both occurrences of 'recent' replaced.
C14_Witness ==
    /\ attempt = 1
    /\ Len(calls) >= 2
    /\ calls[2].fn = "generate_sql"
    /\ calls[2].arg = <<"i", "n", " ", "2", "0", "2", "5", " ", "l", "e", "a", "v", "e", " ", "i", "n", " ", "N", "o", "v", "e", "m", "b", "e", "r", " ", "2", "0", "2", "5", ",", " ", "i", "n", " ", "2", "0", "2", "5", " ", "h", "i", "r", "e", "s">>

\* the trimmed upper-cased text begins with SELECT
BeginsWithSelect(s) == StartsWith(Upper(Strip(s)), <<"S", "E", "L", "E", "C", "T">>)

\* the number of places where p occurs in s
Occurrences(s, p) == Cardinality({i \in 1..Len(s) : At(s, i, p)})

\* the text holds the keyword LIMIT, in any case, as a word of its own
HasLimitClause(s) ==
    \E u \in {Upper(s)} :
        \E i \in 1..Len(u) :
            At(u, i, <<"L", "I", "M", "I", "T">>) /\ NotWordAt(u, i - 1) /\ NotWordAt(u, i + 5)

\* the trimmed text with ' LIMIT 1000' at its end, before a final semicolon
WithLimitAppended(s) ==
    LET t == Strip(s)
    IN  IF t # <<>> /\ t[Len(t)] = ";"
        THEN SubSeq(t, 1, Len(t) - 1) \o <<" ", "L", "I", "M", "I", "T", " ", "1", "0", "0", "0", ";">>
        ELSE t \o <<" ", "L", "I", "M", "I", "T", " ", "1", "0", "0", "0">>

\* C15: add_limit_if_needed applied to its own result changes nothing, and
\* the result holds at most one ' LIMIT 1000' more than the input, also for
\* texts with surrounding whitespace or a final semicolon.
C15_NormalizeIdempotent ==
    nPhase = "twice" =>
        /\ nAgain = nOut
        /\ nOut # None =>
              Occurrences(nAgain, <<" ", "L", "I", "M", "I", "T", " ", "1", "0", "0", "0">>) <= Occurrences(nIn, <<" ", "L", "I", "M", "I", "T", " ", "1", "0", "0", "0">>) + 1

\* C15 witness: a SELECT with leading whitespace and a final semicolon got
\* its LIMIT at the first call and was left alone at the second.
C15_Witness ==
    /\ nPhase = "twice"
    /\ nIn = <<" ", " ", "s", "e", "l", "e", "c", "t", " ", "a", " ", "F", "R", "O", "M", " ", "t", ";", "\n">>
    /\ nOut = <<"s", "e", "l", "e", "c", "t", " ", "a", " ", "F", "R", "O", "M", " ", "t", " ", "L", "I", "M", "I", "T", " ", "1", "0", "0", "0", ";">>
    /\ nAgain = nOut

\* C16 (as claimed): a text that begins with SELECT and has no LIMIT clause
\* gets ' LIMIT 1000' at its end, before a final semicolon; a SELECT with a
\* LIMIT clause and a text that does not begin with SELECT are returned as
\* given.
C16_LimitAppended ==
    (nPhase = "once" /\ nIn # None) =>
        /\ (BeginsWithSelect(nIn) /\ ~HasLimitClause(nIn)) =>
              (nOut = WithLimitAppended(nIn) /\ HasLimitClause(nOut))
        /\ (BeginsWithSelect(nIn) /\ HasLimitClause(nIn)) => nOut = nIn
        /\ ~BeginsWithSelect(nIn) => nOut = nIn

\* C17 (as claimed): every text that execute_query hands to the driver and
\* that begins with SELECT holds a LIMIT clause.
C17_ExecutedSelectCapped ==
    \A i \in DOMAIN driverLog :
        BeginsWithSelect(driverLog[i]) => HasLimitClause(driverLog[i])

\* C18: format_and_enhance_data returns as many rows as it was given, in
\* the same order, each with the field names of its input row in the same
\* order; a value that is no number or is at most 1000000 is returned
\* unchanged, a value that is changed becomes a text, and the rows given
\* are still what they were.
C18_ShapeKeepsStructure ==
    shPhase \in {"shaped", "serialized"} =>
        /\ shIn \in ShapeInputs
        /\ Len(shOut) = Len(shIn)
        /\ \A i \in 1..Len(shIn) :
              /\ Len(shOut[i]) = Len(shIn[i])
              /\ \A j \in 1..Len(shIn[i]) :
                    /\ shOut[i][j][1] = shIn[i][j][1]
                    /\ (shIn[i][j][2].t # "int" \/ shIn[i][j][2].n <= 1000000)
                          => shOut[i][j][2] = shIn[i][j][2]
                    /\ shOut[i][j][2] # shIn[i][j][2] => shOut[i][j][2].t = "str"

\* C18 witness: a duration was turned into hours, an amount got its
\* thousands separators, and the row below the thresholds came back as given.
C18_Witness ==
    /\ shPhase = "shaped"
    /\ shIn = <<RowDuration, RowSmall>>
    /\ shOut[1][1] = shIn[1][1]
    /\ shOut[1][2] = <<<<"t", "i", "m", "e", "_", "s", "p", "e", "n", "t">>, StrVal(<<"0", ".", "5", " ", "h", "o", "u", "r", "s">>)>>
    /\ shOut[2] = RowSmall

\* C19: of more than 10 shaped rows the first 10, in order, are serialized
\* for the prompt, followed by a marker with the number of rows left out;
\* of 10 rows or fewer all are serialized and there is no marker.
C19_PromptTruncated ==
    (shPhase = "serialized" /\ ~shText.raised) =>
        IF Len(shOut) > 10
        THEN /\ shText.rows = [i \in 1..10 |-> shOut[i]]
             /\ shText.tail = <<"\n", ".", ".", ".", " ", "a", "n", "d", " ">> \o Str(Len(shOut) - 10) \o <<" ", "m", "o", "r", "e", " ", "r", "o", "w", "s">>
        ELSE /\ shText.rows = shOut
             /\ shText.tail = <<>>

\* C19 witness: of 15 rows, 10 were serialized and the marker counts 5.
C19_Witness ==
    /\ shPhase = "serialized"
    /\ Len(shOut) = 15
    /\ Len(shText.rows) = 10
    /\ shText.rows[10] = shOut[10]
    /\ shText.tail = <<"\n", ".", ".", ".", " ", "a", "n", "d", " ", "5", " ", "m", "o", "r", "e", " ", "r", "o", "w", "s">>

\* C20: whatever the collaborators return or raise, an attempt that has
\* ended has an answer that is a non-empty string; a collaborator that
\* raised ended the attempt with 'Error processing question: ...'.
C20_AlwaysAnswerString ==
    /\ Returned => (answer # None /\ Len(answer) > 0 /\ \A i \in 1..Len(answer) : answer[i] # None[1])
    /\ \A k \in DOMAIN calls :
          calls[k].res = "raised" =>
              (Returned /\ k = Len(calls) /\ StartsWith(answer, <<"E", "r", "r", "o", "r", " ", "p", "r", "o", "c", "e", "s", "s", "i", "n", "g", " ", "q", "u", "e", "s", "t", "i", "o", "n", ":", " ">>))

\* C20 witness: execute_query raised an exception whose message is empty
\* and the attempt ended with the prefix alone.
C20_Witness ==
    /\ pc = "returned"
    /\ Len(calls) = 4
    /\ calls[4].fn = "execute_query"
    /\ calls[4].res = "raised"
    /\ answer = <<"E", "r", "r", "o", "r", " ", "p", "r", "o", "c", "e", "s", "s", "i", "n", "g", " ", "q", "u", "e", "s", "t", "i", "o", "n", ":", " ">>

\* the executor returned a row sequence with zero rows
EmptyRows(res) == res.kind = "rows" /\ res.rows = <<>>

\* C23: when the executor returned zero rows the attempt ends with an answer
\* that begins with 'No results found', generate_response having made no
\* call to the language model, and process_question_with_retry then starts
\* the next attempt if one remains (and returns that answer if none does).
C23_EmptyResultFeedsRetry ==
    [][/\ (pc' = "returned" /\ EmptyRows(results')) =>
             /\ StartsWith(answer', <<"N", "o", " ", "r", "e", "s", "u", "l", "t", "s", " ", "f", "o", "u", "n", "d">>)
             /\ \E k \in DOMAIN calls' : calls'[k].fn = "generate_response"
             /\ \A k \in DOMAIN calls' : calls'[k].fn # "call_openrouter"
       /\ (pc = "returned" /\ EmptyRows(results)) =>
             IF attempt < maxRetries
             THEN pc' = "schema" /\ attempt' = attempt + 1 /\ final' = final
             ELSE pc' = "done" /\ final' = answer]_vars

\* C23 witness: the second attempt of three also ended with zero rows and
\* the 'No results found' answer of generate_response.
C23_Witness ==
    /\ pc = "returned"
    /\ attempt = 1
    /\ maxRetries = 2
    /\ EmptyRows(results)
    /\ answer = <<"N", "o", " ", "r", "e", "s", "u", "l", "t", "s", " ", "f", "o", "u", "n", "d", " ", "f", "o", "r", " ", "y", "o", "u", "r", " ", "q", "u", "e", "s", "t", "i", "o", "n", ".">>

\* C24: when rows were returned and the language-model call of
\* generate_response failed (an error, no choices, a malformed reply) or
\* returned blank content, the attempt's answer is 'Found <n> results for
\* your query.' with n the number of rows.
C24_MissingResponseFallsBack ==
    \A k \in CallIdx("call_openrouter") :
        (Returned /\ results.kind = "rows"
            /\ (calls[k].res # "choices" \/ Strip(calls[k].out) = <<>>))
        => answer = <<"F", "o", "u", "n", "d", " ">> \o Str(Len(results.rows)) \o <<" ", "r", "e", "s", "u", "l", "t", "s", " ", "f", "o", "r", " ", "y", "o", "u", "r", " ", "q", "u", "e", "r", "y", ".">>

\* the sentence appended for the vacation data of the model (2 users, 5 requests)
ContextSentence(res) ==
    IF res = "data"
    THEN <<"\n", "\n", "V", "a", "c", "a", "t", "i", "o", "n", " ", "d", "a", "t", "a", " ", "i", "s", " ", "a", "l", "s", "o", " ", "a", "v", "a", "i", "l", "a", "b", "l", "e", " ", "w", "i", "t", "h", " ", "2", " ", "u", "s", "e", "r", "s", " ", "a", "n", "d", " ", "5", " ", "v", "a", "c", "a", "t", "i", "o", "n", " ", "r", "e", "q", "u", "e", "s", "t", "s", ".">>
    ELSE <<>>

\* C25: load_vacation_data is called only right after an execute_query that
\* returned rows or an acknowledgement, and only for a question that holds a
\* vacation keyword; whatever it returns (data, None, a raise) the next
\* call is the response generation, on the rows of that execution, and the
\* only effect is the sentence appended to the question given to
\* generate_response (nothing when there is no data or no vacation call).
C25_VacationKeepsFlow ==
    /\ \A k \in CallIdx("load_vacation_data") :
          /\ k > 1
          /\ calls[k - 1].fn = "execute_query"
          /\ calls[k - 1].res \in {"rows", "ack"}
          /\ is_vacation_question(question)
          /\ results.rows = calls[k - 1].out
          /\ IF k = Len(calls)
             THEN pc = "respond"
             ELSE /\ Returned
                  /\ calls[k + 1].fn \in {"call_openrouter", "generate_response"}
                  /\ calls[Len(calls)].fn = "generate_response"
                  /\ calls[Len(calls)].arg = question \o ContextSentence(calls[k].res)
                  /\ calls[Len(calls)].out = calls[k - 1].out
    /\ \A k \in CallIdx("generate_response") :
          /\ CallIdx("load_vacation_data") = {} => calls[k].arg = question
          /\ ~is_vacation_question(question) => CallIdx("load_vacation_data") = {}

\* C25 witness: load_vacation_data raised for a vacation question and the
\* response was generated from the two rows of the execution and the
\* question with nothing appended.
C25_Witness ==
    /\ Returned
    /\ \E k \in CallIdx("load_vacation_data") :
          /\ calls[k].res = "raise"
          /\ Len(calls[k - 1].out) = 2
          /\ calls[Len(calls)].fn = "generate_response"
          /\ calls[Len(calls)].arg = <<"r", "e", "c", "e", "n", "t", " ", "l", "e", "a", "v", "e", " ", "l", "a", "s", "t", " ", "w", "e", "e", "k", ",", " ", "r", "e", "c", "e", "n", "t", " ", "h", "i", "r", "e", "s">>
          /\ calls[Len(calls)].out = calls[k - 1].out

\* the place of a collaborator call in the pipeline order; the gate and the
\* executor stand at a later place once the correction has been asked for
PipelinePlace(k) ==
    LET fn == calls[k].fn
        corrected == \E j \in 1..(k - 1) : calls[j].fn = "fix_sql_error"
    IN  CASE fn = "get_schema" -> 1
          [] fn = "generate_sql" -> 2
          [] fn = "is_safe_query" -> IF corrected THEN 6 ELSE 3
          [] fn = "execute_query" -> IF corrected THEN 7 ELSE 4
          [] fn = "fix_sql_error" -> 5
          [] fn = "load_vacation_data" -> 8
          [] fn = "call_openrouter" -> 9
          [] fn = "generate_response" -> 10
          [] OTHER -> 0

\* C26: within one attempt the collaborators are called in pipeline order,
\* never backwards: get_schema, generate_sql, the gate, execute_query, then
\* optionally fix_sql_error, the gate and execute_query again, then
\* generate_response; get_schema, generate_sql and generate_response are
\* called at most once, every execution follows a gate that accepted the
\* same text, and generate_response follows an execution whose result is
\* neither None nor an error payload.
C26_PipelineOrder ==
    /\ \A k \in DOMAIN calls : PipelinePlace(k) > 0
    /\ \A i, j \in DOMAIN calls : i < j => PipelinePlace(i) < PipelinePlace(j)
    /\ Len(calls) >= 1 => calls[1].fn = "get_schema"
    /\ Len(calls) >= 2 => calls[2].fn = "generate_sql"
    /\ \A fn \in {"get_schema", "generate_sql", "fix_sql_error", "generate_response"} :
          Cardinality(CallIdx(fn)) <= 1
    /\ Cardinality(CallIdx("execute_query")) <= 2
    /\ \A k \in CallIdx("execute_query") :
          /\ k > 1
          /\ calls[k - 1].fn = "is_safe_query"
          /\ calls[k - 1].res = "safe"
          /\ calls[k - 1].arg = calls[k].arg
    /\ \A k \in CallIdx("fix_sql_error") :
          calls[k - 1].fn = "execute_query" /\ calls[k - 1].res = "none"
    /\ \A k \in CallIdx("generate_response") :
          /\ k = Len(calls)
          /\ \E e \in CallIdx("execute_query") :
                /\ \A o \in CallIdx("execute_query") : o <= e
                /\ calls[e].res \in {"rows", "ack"}

\* C26 witness: an attempt that went through every stage, the correction
\* and the vacation context included, and ended with generate_response.
C26_Witness ==
    /\ pc = "returned"
    /\ Len(calls) = 10
    /\ calls[5].fn = "fix_sql_error"
    /\ calls[7].fn = "execute_query"
    /\ calls[8].fn = "load_vacation_data"
    /\ calls[9].fn = "call_openrouter"
    /\ calls[10].fn = "generate_response"

\* the question holds one of the substrings the rewriting replaces
HasRecencyPhrase(q) ==
    Contains(q, <<"u043f", "u043e", "u0441", "u043b", "u0435", "u0434", "u043d">>) \/ Contains(q, <<"r", "e", "c", "e", "n", "t">>) \/ Contains(q, <<"l", "a", "s", "t", " ", "w", "e", "e", "k">>)

\* C29: the question text changes at most once per user question, in the
\* step from the first attempt to the second and only when it holds
\* 'последн', 'recent' or 'last week'; the third attempt runs with the text
\* of the second, and every generate_sql call receives the attempt's text.
C29_RewrittenOnce ==
    [][/\ question' # question =>
             /\ pc = "returned"
             /\ attempt = 0
             /\ attempt' = 1
             /\ HasRecencyPhrase(question)
       /\ (attempt' = attempt + 1 /\ attempt >= 1) => question' = question
       /\ (attempt' = attempt + 1 /\ ~HasRecencyPhrase(question)) => question' = question
       /\ \A k \in DOMAIN calls' : calls'[k].fn = "generate_sql" => calls'[k].arg = question']_vars

\* C29 witness: the third attempt has called generate_sql with the text the
\* second attempt was given.
C29_Witness ==
    /\ attempt = 2
    /\ question = <<"i", "n", " ", "2", "0", "2", "5", " ", "l", "e", "a", "v", "e", " ", "i", "n", " ", "N", "o", "v", "e", "m", "b", "e", "r", " ", "2", "0", "2", "5", ",", " ", "i", "n", " ", "2", "0", "2", "5", " ", "h", "i", "r", "e", "s">>
    /\ Len(calls) >= 2
    /\ calls[2].fn = "generate_sql"
    /\ calls[2].arg = question

\* C28: for every SQL text, database.is_safe_sql accepts only what
\* utils.is_safe_query accepts, and the two verdicts differ only when the
\* text holds an injection marker (;--, /*, */, OR 1=1, OR 1 = 1); a text
\* the first accepts and the second refuses comes back from execute_query
\* as the error payload 'Unsafe SQL query blocked', whatever the database
\* would do, and never as None.
C28_ExecutorGateRefines ==
    gPhase = "checked" =>
        /\ gSql => gQuery
        /\ gQuery # gSql => HasInjectionMarker(gIn)
        /\ (gQuery /\ ~gSql) =>
              \A d \in DriverOutcomes :
                  /\ execute_query(gIn, d).result = [kind |-> "error", rows |-> <<>>, error |-> <<"U", "n", "s", "a", "f", "e", " ", "S", "Q", "L", " ", "q", "u", "e", "r", "y", " ", "b", "l", "o", "c", "k", "e", "d">>]
                  /\ execute_query(gIn, d).handed = <<>>

\* C28 witness: a text with the marker ;-- passed is_safe_query and was
\* refused by is_safe_sql.
C28_Witness ==
    /\ gPhase = "checked"
    /\ gQuery
    /\ ~gSql
    /\ Contains(gIn, <<";", "-", "-">>)
    /\ ~Contains(gIn, <<"/", "*">>)

\* c is the letter d or its capital
SameLetter(c, d) ==
    \/ c = d
    \/ \E n \in 1..26 : UpperLetters[n] = c /\ LowerLetters[n] = d
    \/ \E n \in 1..Len(CyrillicUpper) : CyrillicUpper[n] = c /\ CyrillicLower[n] = d

\* the word w occurs in s, the case of the letters of s set aside
OccursAnyCase(s, w) ==
    \E i \in 1..(Len(s) - Len(w) + 1) : \A j \in 1..Len(w) : SameLetter(s[i + j - 1], w[j])

\* C22: is_vacation_question(q) is true exactly when q, its capitals set
\* aside, holds one of vacation, holiday, time off, leave, sick, отпуск,
\* каникулы, больничный, відпуст, канікул, лікарн as a substring; 'Who is
\* on holiday this week?' and 'Скільки днів відпустки у Петра?' are vacation
\* questions and 'How many employees are there?' is not.
C22_VacationKeywords ==
    vqPhase = "classified" =>
        /\ vqOut <=> \E w \in { <<"v", "a", "c", "a", "t", "i", "o", "n">>, <<"h", "o", "l", "i", "d", "a", "y">>, <<"t", "i", "m", "e", " ", "o", "f", "f">>, <<"l", "e", "a", "v", "e">>, <<"s", "i", "c", "k">>,
                                <<"u043e", "u0442", "u043f", "u0443", "u0441", "u043a">>, <<"u043a", "u0430", "u043d", "u0438", "u043a", "u0443", "u043b", "u044b">>, <<"u0431", "u043e", "u043b", "u044c", "u043d", "u0438", "u0447", "u043d", "u044b", "u0439">>,
                                <<"u0432", "u0456", "u0434", "u043f", "u0443", "u0441", "u0442">>, <<"u043a", "u0430", "u043d", "u0456", "u043a", "u0443", "u043b">>, <<"u043b", "u0456", "u043a", "u0430", "u0440", "u043d">> } : OccursAnyCase(vqIn, w)
        /\ vqIn = <<"W", "h", "o", " ", "i", "s", " ", "o", "n", " ", "h", "o", "l", "i", "d", "a", "y", " ", "t", "h", "i", "s", " ", "w", "e", "e", "k", "?">> => vqOut
        /\ vqIn = <<"u0421", "u043a", "u0456", "u043b", "u044c", "u043a", "u0438", " ", "u0434", "u043d", "u0456", "u0432", " ", "u0432", "u0456", "u0434", "u043f", "u0443", "u0441", "u0442", "u043a", "u0438", " ", "u0443", " ", "u041f", "u0435", "u0442", "u0440", "u0430", "?">> => vqOut
        /\ vqIn = <<"H", "o", "w", " ", "m", "a", "n", "y", " ", "e", "m", "p", "l", "o", "y", "e", "e", "s", " ", "a", "r", "e", " ", "t", "h", "e", "r", "e", "?">> => ~vqOut

\* C22 witness: the Ukrainian question of the test was classified as a
\* vacation question.
C22_Witness ==
    /\ vqPhase = "classified"
    /\ vqIn = <<"u0421", "u043a", "u0456", "u043b", "u044c", "u043a", "u0438", " ", "u0434", "u043d", "u0456", "u0432", " ", "u0432", "u0456", "u0434", "u043f", "u0443", "u0441", "u0442", "u043a", "u0438", " ", "u0443", " ", "u041f", "u0435", "u0442", "u0440", "u0430", "?">>
    /\ vqOut

\* the driver raised inside the try block of execute_query
DriverRaised ==
    \E i \in DOMAIN xLog : xLog[i] \in {"cursor raised", "execute raised", "fetchall raised", "commit raised"}

\* the connections opened and not closed afterwards
OpenConnections ==
    Cardinality({i \in DOMAIN xLog : xLog[i] = "connect" /\ xConn # "none"})
        - Cardinality({i \in DOMAIN xLog : xLog[i] = "close"})

\* C30: when the SQL is empty or fails is_safe_sql, execute_query opens no
\* connection; every connection it opens is closed before it returns, when
\* the statement succeeds and when the driver raises, and in the latter
\* case the transaction is rolled back and None is returned.
C30_NoLeakNoConnect ==
    xPc = "returned" =>
        /\ (xIn = None \/ xIn = <<>> \/ ~is_safe_sql(xIn)) => (xLog = <<>> /\ xConn = "none")
        /\ xConn # "open"
        /\ OpenConnections = 0
        /\ DriverRaised =>
              /\ \E i \in DOMAIN xLog : xLog[i] \in {"rollback", "rollback raised"}
              /\ xRet = [kind |-> "none", rows |-> <<>>, error |-> <<>>]

----------------------------------------------------------------------------
(* C27 *)

\* the lines of ChatLines by what the claim calls them
LinesExit == { <<"e", "x", "i", "t">>, <<" ", "Q", "U", "I", "T", " ">> }

LinesQuiet == { <<>>, <<" ", " ", " ">>, <<"h", "e", "l", "p">>, <<"H", "i", "s", "t", "o", "r", "y">>, <<"S", "T", "A", "T", "U", "S">> }

LinesClear == { <<"c", "l", "e", "a", "r">> }

\* the question each remaining line asks
QuestionOf(line) ==
    CASE line = <<"H", "o", "w", " ", "m", "a", "n", "y", " ", "e", "m", "p", "l", "o", "y", "e", "e", "s", "?">> -> <<"H", "o", "w", " ", "m", "a", "n", "y", " ", "e", "m", "p", "l", "o", "y", "e", "e", "s", "?">>
      [] line = <<"d", "e", "b", "u", "g", " ", "H", "o", "w", " ", "m", "a", "n", "y", " ", "e", "m", "p", "l", "o", "y", "e", "e", "s", "?">> -> <<"H", "o", "w", " ", "m", "a", "n", "y", " ", "e", "m", "p", "l", "o", "y", "e", "e", "s", "?">>
      [] line = <<"d", "e", "b", "u", "g">> -> <<"d", "e", "b", "u", "g">>
      [] line = <<"D", "e", "b", "u", "g", " ", " ", "h", "e", "l", "p">> -> <<"h", "e", "l", "p">>
      [] OTHER -> None

\* the questions of the entries of a history, in order
HistoryQuestions(h) == [i \in 1..Len(h) |-> h[i][1]]

\* C27: in interactive mode each question processed to an answer adds exactly
\* one entry (question, answer, elapsed time) at the end of the history, so
\* the history holds the questions in the order asked; help, history, status
\* and empty input leave it unchanged, clear makes it empty, exit and quit
\* end the session without processing a question.
C27_HistoryPerQuestion ==
    [][ /\ chLine' \in LinesExit =>
            chPc' = "ended" /\ chAsked' = chAsked /\ history' = history
        /\ chLine' \in LinesQuiet =>
            chPc' = "prompt" /\ chAsked' = chAsked /\ history' = history
        /\ chLine' \in LinesClear =>
            chPc' = "prompt" /\ chAsked' = chAsked /\ history' = <<>>
        /\ chLine' = None => chAsked' = chAsked /\ history' = history
        /\ (chLine' \in ChatLines \ (LinesExit \cup LinesQuiet \cup LinesClear)) =>
            /\ Len(chAsked') = Len(chAsked) + 1
            /\ chAsked'[Len(chAsked')][1] = QuestionOf(chLine')
            /\ IF chPc' = "prompt"
               THEN \E ans \in ChatAnswers, elapsed_time \in ElapsedTimes :
                        history' = Append(history, <<QuestionOf(chLine'), ans, elapsed_time>>)
               ELSE history' = history
        /\ \E k \in 0..Len(chAsked') :
               /\ Len(chAsked') - k - Len(history') \in {0, 1}
               /\ HistoryQuestions(history') = [i \in 1..Len(history') |-> chAsked'[k + i][1]]
      ]_vars

\* a debug question was answered after another question and both are in the history
C27_Witness ==
    /\ chPc = "prompt"
    /\ Len(history) = 2
    /\ chLine = <<"D", "e", "b", "u", "g", " ", " ", "h", "e", "l", "p">>
    /\ history[2][1] = <<"h", "e", "l", "p">>
    /\ chAsked[Len(chAsked)] = <<<<"h", "e", "l", "p">>, TRUE>>

----------------------------------------------------------------------------
(* C21 *)

\* C21: debug mode is observation only: for the same question and the same
\* collaborator responses the run with debug=True and the run with
\* debug=False make the same collaborator calls with the same arguments,
\* retries included, and return the same answer.
C21_DebugObservationOnly ==
    /\ runPlain.done = runDebug.done
    /\ runPlain.attempt = runDebug.attempt
    /\ runPlain.question = runDebug.question
    /\ runPlain.calls = runDebug.calls
    /\ runPlain.answer = runDebug.answer

====
